---------------------------- MODULE Spec2Model ----------------------------
(***************************************************************************)
(* Model of the citation resolution pipeline of app.py: the text           *)
(* extractors, the BibTeX / RIS converters, the cached source adapters,    *)
(* the six-tier cascade of resolve_one and the batch loop that runs it     *)
(* over the entries of a paste.                                            *)
(*                                                                         *)
(* A text is a sequence of one-character strings, so that the extractors   *)
(* and converters are computed character by character as the code does.    *)
(* An optional value (Python's None or a value) is a sequence of length    *)
(* zero or one.                                                            *)
(***************************************************************************)
EXTENDS Integers, Sequences, FiniteSets, TLC

(***************************************************************************)
(* Characters and the str methods the code uses (ASCII).                   *)
(***************************************************************************)
Digits == {"0", "1", "2", "3", "4", "5", "6", "7", "8", "9"}

DigitSeq == <<"0", "1", "2", "3", "4", "5", "6", "7", "8", "9">>

LowerSeq ==
  <<"a", "b", "c", "d", "e", "f", "g", "h", "i", "j", "k", "l", "m",
    "n", "o", "p", "q", "r", "s", "t", "u", "v", "w", "x", "y", "z">>

UpperSeq ==
  <<"A", "B", "C", "D", "E", "F", "G", "H", "I", "J", "K", "L", "M",
    "N", "O", "P", "Q", "R", "S", "T", "U", "V", "W", "X", "Y", "Z">>

Lower == {LowerSeq[i] : i \in 1..26}

Upper == {UpperSeq[i] : i \in 1..26}

Letters == Lower \cup Upper

\* the ASCII whitespace of \s, str.strip() and str.split(): space, \t, \n, \r,
\* \f, and the control characters VT (0x0b), FS (0x1c), GS (0x1d), RS (0x1e)
\* and US (0x1f)
Spaces ==
  {" ", "\t", "\n", "\r", "\f", "", "", "", "", ""}

\* \w of the re module
WordChars == Letters \cup Digits \cup {"_"}

None == <<>>

Some(x) == <<x>>

SetMin(S) == CHOOSE x \in S : \A y \in S : x <= y

SetMax(S) == CHOOSE x \in S : \A y \in S : x >= y

\* str.lower() of one character
LowerChar(c) ==
  IF c \in Upper THEN LowerSeq[CHOOSE i \in 1..26 : UpperSeq[i] = c] ELSE c

\* str.lower()
lower(s) == [i \in 1..Len(s) |-> LowerChar(s[i])]

\* s[i-1:j-1] of Python for 1-based i and exclusive end j
Slice(s, i, j) == SubSeq(s, i, j - 1)

\* str.strip(): leading and trailing whitespace removed
strip(s) ==
  LET keep == {i \in 1..Len(s) : s[i] \notin Spaces}
  IN IF keep = {} THEN <<>> ELSE SubSeq(s, SetMin(keep), SetMax(keep))

\* str.rstrip(): trailing whitespace removed
rstrip(s) ==
  LET keep == {i \in 1..Len(s) : s[i] \notin Spaces}
  IN IF keep = {} THEN <<>> ELSE SubSeq(s, 1, SetMax(keep))

\* str.rstrip("."): every trailing period removed
rstrip_dot(s) ==
  LET keep == {i \in 1..Len(s) : s[i] # "."}
  IN IF keep = {} THEN <<>> ELSE SubSeq(s, 1, SetMax(keep))

\* str.strip('"')
strip_dquote(s) ==
  LET keep == {i \in 1..Len(s) : s[i] # "\""}
  IN IF keep = {} THEN <<>> ELSE SubSeq(s, SetMin(keep), SetMax(keep))

\* whether s holds the text p at position i
StartsAt(s, i, p) ==
  /\ i >= 1
  /\ i + Len(p) - 1 <= Len(s)
  /\ \A k \in 1..Len(p) : s[i + k - 1] = p[k]

\* "p in s"
Contains(s, p) == \E i \in 1..(Len(s) + 1) : StartsAt(s, i, p)

\* the index after the longest run of characters of cls that starts at i
RunEnd(s, i, cls) ==
  SetMin({j \in i..(Len(s) + 1) : j = Len(s) + 1 \/ s[j] \notin cls})

\* the index after the longest run of characters not in cls that starts at i
RunEndNot(s, i, cls) ==
  SetMin({j \in i..(Len(s) + 1) : j = Len(s) + 1 \/ s[j] \in cls})

\* str.replace(old, new) for a non-empty old: left to right, not overlapping
RECURSIVE ReplaceFrom(_, _, _, _)
ReplaceFrom(s, i, old, new) ==
  LET at == {j \in i..Len(s) : StartsAt(s, j, old)}
  IN IF at = {} THEN Slice(s, i, Len(s) + 1)
     ELSE Slice(s, i, SetMin(at)) \o new
            \o ReplaceFrom(s, SetMin(at) + Len(old), old, new)

replace(s, old, new) == ReplaceFrom(s, 1, old, new)

\* str.split(sep) for a one-character sep: the pieces between separators
RECURSIVE SplitOnFrom(_, _, _)
SplitOnFrom(s, i, seps) ==
  LET e == RunEndNot(s, i, seps)
  IN IF e > Len(s) THEN <<Slice(s, i, e)>>
     ELSE <<Slice(s, i, e)>> \o SplitOnFrom(s, e + 1, seps)

SplitOn(s, seps) == SplitOnFrom(s, 1, seps)

\* str.split(): the maximal runs of non-whitespace characters
RECURSIVE SplitWsFrom(_, _)
SplitWsFrom(s, i) ==
  LET b == RunEnd(s, i, Spaces)
  IN IF b > Len(s) THEN <<>>
     ELSE LET e == RunEndNot(s, b, Spaces)
          IN <<Slice(s, b, e)>> \o SplitWsFrom(s, e)

split(s) == SplitWsFrom(s, 1)

\* str.splitlines(): a line ends at "\n", "\r", "\r\n" (one line end), "\f",
\* VT (0x0b), FS (0x1c), GS (0x1d) or RS (0x1e); a trailing line end opens no
\* line
RECURSIVE SplitLinesFrom(_, _)
SplitLinesFrom(s, i) ==
  IF i > Len(s) THEN <<>>
  ELSE LET e == RunEndNot(s, i, {"\n", "\r", "\f", "", "", "", ""})
           n == IF e < Len(s) /\ s[e] = "\r" /\ s[e + 1] = "\n" THEN e + 2 ELSE e + 1
       IN <<Slice(s, i, e)>> \o SplitLinesFrom(s, n)

splitlines(s) == SplitLinesFrom(s, 1)

\* sep.join(parts)
RECURSIVE join(_, _)
join(sep, parts) ==
  IF parts = <<>> THEN <<>>
  ELSE IF Len(parts) = 1 THEN parts[1]
  ELSE parts[1] \o sep \o join(sep, Tail(parts))

\* [f for f in parts if f]: the non-empty texts, in order
NonEmpty(parts) == SelectSeq(parts, LAMBDA f : f # <<>>)

\* max(parts, key=len): the first of the longest
MaxByLen(parts) ==
  LET n == SetMax({Len(parts[i]) : i \in 1..Len(parts)})
  IN parts[SetMin({i \in 1..Len(parts) : Len(parts[i]) = n})]

\* re.sub(r"\s+", " ", s): each run of whitespace becomes one space
CollapseSpaces(s) ==
  LET keep == SelectSeq([i \in 1..Len(s) |-> i], LAMBDA i : s[i] \notin Spaces \/ i = 1 \/ s[i - 1] \notin Spaces)
  IN [k \in 1..Len(keep) |-> IF s[keep[k]] \in Spaces THEN " " ELSE s[keep[k]]]

\* str(n) for n >= 0
RECURSIVE str_int(_)
str_int(n) ==
  IF n < 10 THEN <<DigitSeq[n + 1]>>
  ELSE str_int(n \div 10) \o <<DigitSeq[(n % 10) + 1]>>

\* f"{n:0wd}" for n >= 0
RECURSIVE ZeroPad(_, _)
ZeroPad(t, w) == IF Len(t) >= w THEN t ELSE ZeroPad(<<"0">> \o t, w)

\* \b of the re module at index i: between s[i-1] and s[i]
WordBoundary(s, i) ==
  LET before == i > 1 /\ s[i - 1] \in WordChars
      after == i <= Len(s) /\ s[i] \in WordChars
  IN before # after

(***************************************************************************)
(* Regular expressions of the extractors.  Each XxxEnd(s, i) is the index  *)
(* after the match that re finds when it starts at index i, or 0 when no   *)
(* match starts there.                                                     *)
(***************************************************************************)
\* [-._;()/:A-Z0-9] under re.IGNORECASE
DoiChars == Letters \cup Digits \cup {"-", ".", "_", ";", "(", ")", "/", ":"}

\* DOI_RE = \b10\.\d{4,9}/[-._;()/:A-Z0-9]+\b
DOI_RE_End(s, i) ==
  IF ~(WordBoundary(s, i) /\ StartsAt(s, i, <<"1", "0", ".">>))
  THEN 0
  ELSE LET d == RunEnd(s, i + 3, Digits)
       IN IF ~(d - (i + 3) >= 4 /\ d - (i + 3) <= 9 /\ d <= Len(s) /\ s[d] = "/")
          THEN 0
          ELSE LET e == RunEnd(s, d + 1, DoiChars)
                   ends == {j \in (d + 2)..e : WordBoundary(s, j)}
               IN IF ends = {} THEN 0 ELSE SetMax(ends)

\* the ends of (?:v\d+)?\b from index p: with the version (longest first) or without
VersionEnds(s, p) ==
  LET e == IF p <= Len(s) /\ s[p] \in {"v", "V"} THEN RunEnd(s, p + 1, Digits) ELSE p
  IN {j \in ({p} \cup ((p + 2)..e)) : WordBoundary(s, j)}

\* ARXIV_NEW_RE = \b\d{4}\.\d{4,5}(?:v\d+)?\b: every end a match from i can have
ARXIV_NEW_RE_Ends(s, i) ==
  IF ~(/\ WordBoundary(s, i)
       /\ i + 4 <= Len(s)
       /\ \A k \in 0..3 : s[i + k] \in Digits
       /\ s[i + 4] = ".")
  THEN {}
  ELSE LET run == RunEnd(s, i + 5, Digits) - (i + 5)
       IN UNION {VersionEnds(s, i + 5 + d) : d \in {n \in {4, 5} : n <= run}}

\* ARXIV_OLD_RE = \b[a-z\-]+/\d{7}(?:v\d+)?\b under re.IGNORECASE
ARXIV_OLD_RE_Ends(s, i) ==
  LET a == RunEnd(s, i, Letters \cup {"-"})
  IN IF ~(/\ i <= Len(s)
          /\ WordBoundary(s, i)
          /\ a > i
          /\ a <= Len(s)
          /\ s[a] = "/"
          /\ RunEnd(s, a + 1, Digits) - (a + 1) >= 7)
     THEN {}
     ELSE VersionEnds(s, a + 8)

\* RE.fullmatch(s)
ARXIV_NEW_RE_fullmatch(s) == (Len(s) + 1) \in ARXIV_NEW_RE_Ends(s, 1)

ARXIV_OLD_RE_fullmatch(s) == (Len(s) + 1) \in ARXIV_OLD_RE_Ends(s, 1)

\* RE.search(s): None, or the text of the leftmost match (greedy: its longest end)
DOI_RE_search(s) ==
  LET at == {i \in 1..Len(s) : DOI_RE_End(s, i) > 0}
  IN IF at = {} THEN None
     ELSE Some(Slice(s, SetMin(at), DOI_RE_End(s, SetMin(at))))

ARXIV_NEW_RE_search(s) ==
  LET at == {i \in 1..Len(s) : ARXIV_NEW_RE_Ends(s, i) # {}}
  IN IF at = {} THEN None
     ELSE Some(Slice(s, SetMin(at), SetMax(ARXIV_NEW_RE_Ends(s, SetMin(at)))))

ARXIV_OLD_RE_search(s) ==
  LET at == {i \in 1..Len(s) : ARXIV_OLD_RE_Ends(s, i) # {}}
  IN IF at = {} THEN None
     ELSE Some(Slice(s, SetMin(at), SetMax(ARXIV_OLD_RE_Ends(s, SetMin(at)))))

(***************************************************************************)
(* The extractors.                                                         *)
(***************************************************************************)
extract_doi(text) ==
  LET m == DOI_RE_search(text)
  IN IF m = None THEN None ELSE Some(rstrip_dot(m[1]))

\* re.search(r"arxiv\s*:\s*([^\s]+)", text, re.IGNORECASE): group 1, or None
ArxivPrefixGroup(text) ==
  LET GroupStart(i) ==
        IF ~StartsAt(lower(text), i, <<"a", "r", "x", "i", "v">>) THEN 0
        ELSE LET c == RunEnd(text, i + 5, Spaces)
             IN IF ~(c <= Len(text) /\ text[c] = ":") THEN 0
                ELSE LET g == RunEnd(text, c + 1, Spaces)
                     IN IF g <= Len(text) THEN g ELSE 0
      at == {i \in 1..Len(text) : GroupStart(i) > 0}
  IN IF at = {} THEN None
     ELSE LET g == GroupStart(SetMin(at))
          IN Some(Slice(text, g, RunEndNot(text, g, Spaces)))

\* re.search(r"arxiv\.org/(?:abs|pdf)/([^\s?#]+)", text, re.IGNORECASE): group 1
ArxivUrlGroup(text) ==
  LET Stop == Spaces \cup {"?", "#"}
      GroupStart(i) ==
        IF /\ \/ StartsAt(lower(text), i, <<"a", "r", "x", "i", "v", ".", "o", "r", "g", "/", "a", "b", "s", "/">>)
              \/ StartsAt(lower(text), i, <<"a", "r", "x", "i", "v", ".", "o", "r", "g", "/", "p", "d", "f", "/">>)
           /\ i + 14 <= Len(text)
           /\ text[i + 14] \notin Stop
        THEN i + 14 ELSE 0
      at == {i \in 1..Len(text) : GroupStart(i) > 0}
  IN IF at = {} THEN None
     ELSE LET g == GroupStart(SetMin(at))
          IN Some(Slice(text, g, RunEndNot(text, g, Stop)))

extract_arxiv_id(text) ==
  LET m1 == ArxivPrefixGroup(text)
      cand1 == IF m1 = None THEN <<>>
               ELSE rstrip_dot(strip(replace(replace(replace(m1[1],
                      <<"a", "b", "s", "/">>, <<>>), <<"p", "d", "f", "/">>, <<>>), <<".", "p", "d", "f">>, <<>>)))
      m2 == ArxivUrlGroup(text)
      cand2 == IF m2 = None THEN <<>>
               ELSE rstrip_dot(strip(replace(m2[1], <<".", "p", "d", "f">>, <<>>)))
  IN IF text = <<>> THEN None
     ELSE IF m1 # None /\ (ARXIV_NEW_RE_fullmatch(cand1) \/ ARXIV_OLD_RE_fullmatch(cand1))
     THEN Some(cand1)
     ELSE IF m2 # None /\ (ARXIV_NEW_RE_fullmatch(cand2) \/ ARXIV_OLD_RE_fullmatch(cand2))
     THEN Some(cand2)
     ELSE IF ARXIV_NEW_RE_search(text) # None THEN ARXIV_NEW_RE_search(text)
     ELSE ARXIV_OLD_RE_search(text)

\* re.sub(r"^\s*(\[\d+\]|\d+\.)\s*", "", t): a leading [N] or N. marker removed
StripNumbering(t) ==
  LET b == RunEnd(t, 1, Spaces)
      d == RunEnd(t, b, Digits)
      d2 == RunEnd(t, b + 1, Digits)
      e == IF d > b /\ d <= Len(t) /\ t[d] = "." THEN d + 1
           ELSE IF /\ b <= Len(t) /\ t[b] = "[" /\ d2 > b + 1
                   /\ d2 <= Len(t) /\ t[d2] = "]" THEN d2 + 1
           ELSE 0
  IN IF e = 0 THEN t ELSE Slice(t, RunEnd(t, e, Spaces), Len(t) + 1)

\* re.sub(r"\barxiv\b.*$", "", t, flags=re.IGNORECASE): "." stops at a line end
\* and "$" holds at the end of the text or before a line end that ends it
StripArxivTail(t) ==
  LET Ok(i) ==
        /\ StartsAt(lower(t), i, <<"a", "r", "x", "i", "v">>)
        /\ WordBoundary(t, i)
        /\ WordBoundary(t, i + 5)
        /\ RunEndNot(t, i + 5, {"\n"}) >= Len(t)
      at == {i \in 1..Len(t) : Ok(i)}
  IN IF at = {} THEN t
     ELSE Slice(t, 1, SetMin(at)) \o Slice(t, RunEndNot(t, SetMin(at) + 5, {"\n"}), Len(t) + 1)

\* re.sub(r"https?://\S+", "", t)
RECURSIVE StripUrlsFrom(_, _)
StripUrlsFrom(t, i) ==
  LET UrlEnd(j) ==
        LET p == IF StartsAt(t, j, <<"h", "t", "t", "p", ":", "/", "/">>) THEN j + 7
                 ELSE IF StartsAt(t, j, <<"h", "t", "t", "p", "s", ":", "/", "/">>) THEN j + 8
                 ELSE 0
        IN IF p > 0 /\ p <= Len(t) /\ t[p] \notin Spaces
           THEN RunEndNot(t, p, Spaces) ELSE 0
      at == {j \in i..Len(t) : UrlEnd(j) > 0}
  IN IF at = {} THEN Slice(t, i, Len(t) + 1)
     ELSE Slice(t, i, SetMin(at)) \o StripUrlsFrom(t, UrlEnd(SetMin(at)))

StripUrls(t) == StripUrlsFrom(t, 1)

\* the ASCII quotation marks of the quoted-title pattern
Quotes == {"\"", "'"}

\* re.search(r"[quotes](.+?)[quotes]", t): group 1 of the leftmost match, with
\* the shortest span of one or more characters other than a line end
QuotedGroup(t) ==
  LET Close(i) ==
        {j \in (i + 2)..Len(t) :
           t[j] \in Quotes /\ \A k \in (i + 1)..(j - 1) : t[k] # "\n"}
      at == {i \in 1..Len(t) : t[i] \in Quotes /\ Close(i) # {}}
  IN IF at = {} THEN None
     ELSE Some(Slice(t, SetMin(at) + 1, SetMin(Close(SetMin(at)))))

\* [p.strip() for p in pieces if p.strip()]
StrippedNonEmpty(pieces) == NonEmpty([i \in 1..Len(pieces) |-> strip(pieces[i])])

guess_title(text) ==
  LET t1 == StripNumbering(strip(text))
      t2 == strip(StripArxivTail(t1))
      t == strip(StripUrls(t2))
      qm == QuotedGroup(t)
      parts == StrippedNonEmpty(SplitOn(t, {".", ";"}))
      chunks == StrippedNonEmpty(SplitOn(t, {","}))
  IN IF text = <<>> THEN <<>>
     ELSE IF qm # None /\ Len(qm[1]) >= 6 THEN rstrip_dot(strip(qm[1]))
     ELSE IF parts # <<>> /\ Len(MaxByLen(parts)) > 15
     THEN rstrip_dot(strip(MaxByLen(parts)))
     ELSE IF Contains(t, <<",">>) /\ chunks # <<>>
     THEN rstrip_dot(strip(MaxByLen(chunks)))
     ELSE rstrip_dot(strip(t))

\* _norm: lower case, every character other than a-z, 0-9 and whitespace to a
\* space, runs of whitespace to one space
_norm(s) ==
  LET a == CollapseSpaces(lower(strip(s)))
      b == [i \in 1..Len(a) |->
              IF a[i] \in Lower \cup Digits \cup Spaces THEN a[i] ELSE " "]
  IN strip(CollapseSpaces(b))

\* re.sub(r"[^a-z0-9]", "", s)
KeepAlnum(s) == SelectSeq(s, LAMBDA c : c \in Lower \cup Digits)

\* an exception raised by the code: its str() is the message of a result
IndexErrorText == "list index out of range"

\* a computed value, or the exception the computation raised
Value(v) == [exc |-> None, val |-> v]

Raise(msg) == [exc |-> Some(msg), val |-> <<>>]

\* make_key: authors[0].split()[-1] raises IndexError when the first author
\* has no token; year is an optional integer (0 counts as absent)
make_key(authors, year, title) ==
  LET toks == IF authors = <<>> THEN <<>> ELSE split(authors[1])
      last == IF authors = <<>> THEN <<"p", "a", "p", "e", "r">>
              ELSE KeepAlnum(lower(toks[Len(toks)]))
      y == IF year # None /\ year[1] # 0 THEN str_int(year[1]) ELSE <<"n", "o", "y", "e", "a", "r">>
      words == split(_norm(title))
      first == IF words = <<>> THEN <<"w", "o", "r", "k">> ELSE words[1]
  IN IF authors # <<>> /\ toks = <<>> THEN Raise(IndexErrorText)
     ELSE Value(last \o y \o first)

(***************************************************************************)
(* Escaping and the RIS helpers.                                           *)
(***************************************************************************)
\* latex_escape: the six replacements in the order of the code, backslash first
latex_escape(s) ==
  replace(replace(replace(replace(replace(replace(s,
    <<"\\">>, <<"\\", "\\">>),
    <<"&">>, <<"\\", "&">>),
    <<"%">>, <<"\\", "%">>),
    <<"_">>, <<"\\", "_">>),
    <<"#">>, <<"\\", "#">>),
    <<"$">>, <<"\\", "$">>)

\* ris_escape: line ends to spaces, stripped, runs of whitespace to one space
ris_escape(s) ==
  CollapseSpaces(strip(replace(replace(s, <<"\r">>, <<" ">>), <<"\n">>, <<" ">>)))

\* _ris_line: "TAG  - value", or the empty text for an empty value
_ris_line(tag, value) ==
  IF ris_escape(value) = <<>> THEN <<>>
  ELSE tag \o <<" ", " ", "-", " ">> \o ris_escape(value)

\* _name_to_ris_author: "First Last" to "Last, First"
_name_to_ris_author(name) ==
  LET n == strip(name)
      parts == split(n)
  IN IF n = <<>> THEN <<>>
     ELSE IF Contains(n, <<",">>) THEN n
     ELSE IF Len(parts) >= 2
     THEN parts[Len(parts)] \o <<",", " ">> \o join(<<" ">>, SubSeq(parts, 1, Len(parts) - 1))
     ELSE n

\* _split_pages: (start, end) of a page range, each optional.  The en dash the
\* code also accepts is outside the ASCII texts of the model.
_split_pages(pages) ==
  LET p == replace(strip(pages), <<"-", "-">>, <<"-">>)
      cut == SetMin({i \in 1..Len(p) : p[i] = "-"})
      a == strip(Slice(p, 1, cut))
      b == strip(Slice(p, cut + 1, Len(p) + 1))
      Opt(x) == IF x = <<>> THEN None ELSE Some(x)
  IN IF pages = <<>> THEN <<None, None>>
     ELSE IF Contains(p, <<"-">>) THEN <<Opt(a), Opt(b)>>
     ELSE <<Opt(strip(p)), None>>

\* arxiv_doi: the DataCite DOI; split("v", 1)[0] keeps the text before the first "v"
arxiv_doi(arxiv_id) ==
  IF arxiv_id = <<>> THEN <<>>
  ELSE <<"1", "0", ".", "4", "8", "5", "5", "0", "/", "a", "r", "X", "i", "v", ".">> \o Slice(arxiv_id, 1, RunEndNot(arxiv_id, 1, {"v"}))

(***************************************************************************)
(* arXiv records and their converters.  A record (arxiv.Result) has title, *)
(* authors (the names, in order), published (optional [year, month, day]), *)
(* entry_id (its URL) and primary_category (optional).                     *)
(***************************************************************************)
\* Result.get_short_id() of the arxiv package: the entry URL after "arxiv.org/abs/"
get_short_id(r) ==
  LET mark == <<"a", "r", "x", "i", "v", ".", "o", "r", "g", "/", "a", "b", "s", "/">>
      at == {i \in 1..Len(r.entry_id) : StartsAt(r.entry_id, i, mark)}
  IN IF at = {} THEN r.entry_id
     ELSE Slice(r.entry_id, SetMax(at) + Len(mark), Len(r.entry_id) + 1)

\* one line "  name={{value}},\n" of the arXiv BibTeX entry
ArxivBibField(name, value) == <<" ", " ">> \o name \o <<"=", "{", "{">> \o value \o <<"}", "}", ",", "\n">>

format_arxiv_to_bibtex(r) ==
  LET authors == r.authors
      authors_str == join(<<" ", "a", "n", "d", " ">>, authors)
      year == IF r.published # None THEN Some(r.published[1].year) ELSE None
      key == make_key(authors, year, r.title)
      arxiv_id == get_short_id(r)
      primary == IF r.primary_category # None THEN r.primary_category[1] ELSE <<>>
      title == latex_escape(strip(r.title))
      url == r.entry_id
      year_text == IF year = None THEN <<"N", "o", "n", "e">> ELSE str_int(year[1])
  IN IF key.exc # None THEN key
     ELSE Value(<<"@", "m", "i", "s", "c", "{">> \o key.val \o <<",", "\n">>
                  \o ArxivBibField(<<"t", "i", "t", "l", "e">>, title)
                  \o ArxivBibField(<<"a", "u", "t", "h", "o", "r">>, latex_escape(authors_str))
                  \o ArxivBibField(<<"y", "e", "a", "r">>, year_text)
                  \o ArxivBibField(<<"e", "p", "r", "i", "n", "t">>, arxiv_id)
                  \o ArxivBibField(<<"a", "r", "c", "h", "i", "v", "e", "P", "r", "e", "f", "i", "x">>, <<"a", "r", "X", "i", "v">>)
                  \o ArxivBibField(<<"p", "r", "i", "m", "a", "r", "y", "C", "l", "a", "s", "s">>, primary)
                  \o ArxivBibField(<<"u", "r", "l">>, url)
                  \o <<"}">>)

\* the lines of a record joined by "\n", the empty ones left out
JoinLines(lines) == join(<<"\n">>, NonEmpty(lines))

format_arxiv_to_ris(r) ==
  LET arxiv_id == get_short_id(r)
      year == IF r.published # None THEN r.published[1].year ELSE 0
      da == IF r.published # None
            \* strftime("%Y/%m/%d"): %Y of the C library does not pad the year
            THEN str_int(r.published[1].year) \o <<"/">>
                   \o ZeroPad(str_int(r.published[1].month), 2) \o <<"/">>
                   \o ZeroPad(str_int(r.published[1].day), 2)
            ELSE <<>>
      primary == IF r.primary_category # None THEN r.primary_category[1] ELSE <<>>
      authors == [i \in 1..Len(r.authors) |-> _name_to_ris_author(r.authors[i])]
  IN JoinLines(
       <<_ris_line(<<"T", "Y">>, <<"R", "P", "R", "T">>), _ris_line(<<"T", "I">>, r.title)>>
       \o [i \in 1..Len(authors) |-> _ris_line(<<"A", "U">>, authors[i])]
       \o (IF year # 0 THEN <<_ris_line(<<"P", "Y">>, str_int(year))>> ELSE <<>>)
       \o (IF da # <<>> THEN <<_ris_line(<<"D", "A">>, da)>> ELSE <<>>)
       \o <<_ris_line(<<"J", "O">>, <<"a", "r", "X", "i", "v">>), _ris_line(<<"T", "2">>, <<"a", "r", "X", "i", "v", ":">> \o arxiv_id)>>
       \o (IF primary # <<>> THEN <<_ris_line(<<"K", "W">>, primary)>> ELSE <<>>)
       \o <<_ris_line(<<"D", "O">>, arxiv_doi(arxiv_id)), _ris_line(<<"U", "R">>, r.entry_id)>>
       \o <<<<"E", "R", " ", " ", "-">>>>)

(***************************************************************************)
(* Crossref works and their converters.  A work (the "message" object of   *)
(* the REST answer) has title and container_title (lists of texts), type,  *)
(* DOI, URL, volume, issue, page, publisher (texts, empty when absent),    *)
(* author (a list of [family, given, name]) and dates: for each date key   *)
(* its "date-parts", a list of lists of integers in which 0 stands for a   *)
(* JSON null (both are false in Python); an absent key has no date-parts.  *)
(***************************************************************************)
CROSSREF_DATE_KEYS == <<"issued", "created", "published-print", "published-online">>

\* CROSSREF_TYPE_TO_RIS.get(typ, "GEN")
CROSSREF_TYPE_TO_RIS(typ) ==
  IF typ \in {<<"j", "o", "u", "r", "n", "a", "l", "-", "a", "r", "t", "i", "c", "l", "e">>, <<"j", "o", "u", "r", "n", "a", "l", "-", "i", "s", "s", "u", "e">>} THEN <<"J", "O", "U", "R">>
  ELSE IF typ \in {<<"p", "r", "o", "c", "e", "e", "d", "i", "n", "g", "s", "-", "a", "r", "t", "i", "c", "l", "e">>, <<"c", "o", "n", "f", "e", "r", "e", "n", "c", "e", "-", "p", "a", "p", "e", "r">>} THEN <<"C", "O", "N", "F">>
  ELSE IF typ \in {<<"b", "o", "o", "k", "-", "c", "h", "a", "p", "t", "e", "r">>, <<"b", "o", "o", "k", "-", "s", "e", "c", "t", "i", "o", "n">>} THEN <<"C", "H", "A", "P">>
  ELSE IF typ \in {<<"b", "o", "o", "k">>, <<"m", "o", "n", "o", "g", "r", "a", "p", "h">>} THEN <<"B", "O", "O", "K">>
  ELSE IF typ \in {<<"r", "e", "p", "o", "r", "t">>, <<"p", "o", "s", "t", "e", "d", "-", "c", "o", "n", "t", "e", "n", "t">>} THEN <<"R", "P", "R", "T">>
  ELSE IF typ \in {<<"d", "i", "s", "s", "e", "r", "t", "a", "t", "i", "o", "n">>, <<"t", "h", "e", "s", "i", "s">>} THEN <<"T", "H", "E", "S">>
  ELSE <<"G", "E", "N">>

\* _crossref_best_date: the parts of the first key whose first date-parts list
\* is not empty, as optional integers
_crossref_best_date(m) ==
  LET has == {k \in 1..4 : LET dp == m.dates[CROSSREF_DATE_KEYS[k]]
                           IN dp # <<>> /\ dp[1] # <<>>}
      parts == m.dates[CROSSREF_DATE_KEYS[SetMin(has)]][1]
      At(n) == IF Len(parts) >= n /\ parts[n] # 0 THEN Some(parts[n]) ELSE None
  IN IF has = {} THEN [y |-> None, mo |-> None, d |-> None]
     ELSE [y |-> At(1), mo |-> At(2), d |-> At(3)]

\* the author names of both Crossref converters: "family, given", else the name
CrossrefAuthors(m) ==
  LET One(a) == IF strip(a.family) # <<>> /\ strip(a.given) # <<>>
                THEN strip(a.family) \o <<",", " ">> \o strip(a.given)
                ELSE strip(a.name)
  IN NonEmpty([i \in 1..Len(m.author) |-> One(m.author[i])])

\* title_list[0] if title_list else ""
FirstOrEmpty(list) == IF list = <<>> THEN <<>> ELSE list[1]

ris_from_crossref(m) ==
  LET title == FirstOrEmpty(m.title)
      container == FirstOrEmpty(m.container_title)
      ris_ty == CROSSREF_TYPE_TO_RIS(strip(m.type))
      doi == strip(m.DOI)
      url == strip(m.URL)
      volume == strip(m.volume)
      number == strip(m.issue)
      publisher == strip(m.publisher)
      sp_ep == _split_pages(strip(m.page))
      aus == CrossrefAuthors(m)
      date == _crossref_best_date(m)
      y == date.y
      mo == date.mo
      d == date.d
      da == IF y # None /\ mo # None /\ d # None
            THEN ZeroPad(str_int(y[1]), 4) \o <<"/">> \o ZeroPad(str_int(mo[1]), 2)
                   \o <<"/">> \o ZeroPad(str_int(d[1]), 2)
            ELSE IF y # None /\ mo # None
            THEN ZeroPad(str_int(y[1]), 4) \o <<"/">> \o ZeroPad(str_int(mo[1]), 2)
            ELSE IF y # None THEN ZeroPad(str_int(y[1]), 4)
            ELSE <<>>
      Line(cond, tag, value) == IF cond THEN <<_ris_line(tag, value)>> ELSE <<>>
  IN JoinLines(
       <<_ris_line(<<"T", "Y">>, ris_ty), _ris_line(<<"T", "I">>, title)>>
       \o [i \in 1..Len(aus) |-> _ris_line(<<"A", "U">>, aus[i])]
       \o (IF y # None THEN <<_ris_line(<<"P", "Y">>, str_int(y[1]))>> ELSE <<>>)
       \o Line(da # <<>>, <<"D", "A">>, da)
       \o (IF ris_ty = <<"J", "O", "U", "R">>
           THEN Line(container # <<>>, <<"J", "O">>, container)
                  \o Line(container # <<>>, <<"J", "F">>, container)
                  \o Line(volume # <<>>, <<"V", "L">>, volume)
                  \o Line(number # <<>>, <<"I", "S">>, number)
           ELSE Line(container # <<>>, <<"T", "2">>, container)
                  \o Line(publisher # <<>>, <<"P", "B">>, publisher))
       \o (IF sp_ep[1] # None THEN <<_ris_line(<<"S", "P">>, sp_ep[1][1])>> ELSE <<>>)
       \o (IF sp_ep[2] # None THEN <<_ris_line(<<"E", "P">>, sp_ep[2][1])>> ELSE <<>>)
       \o Line(doi # <<>>, <<"D", "O">>, doi)
       \o Line(url # <<>>, <<"U", "R">>, url)
       \o <<<<"E", "R", " ", " ", "-">>>>)

\* the year loop of bibtex_from_crossref: the first key whose first date part
\* is a year
BibtexYear(m) ==
  LET has == {k \in 1..4 : LET dp == m.dates[CROSSREF_DATE_KEYS[k]]
                           IN dp # <<>> /\ dp[1] # <<>> /\ dp[1][1] # 0}
  IN IF has = {} THEN None
     ELSE Some(m.dates[CROSSREF_DATE_KEYS[SetMin(has)]][1][1])

\* the fields dict of bibtex_from_crossref, as (name, value) in insertion order
BibtexFields(m) ==
  LET title == FirstOrEmpty(m.title)
      container == FirstOrEmpty(m.container_title)
      authors == CrossrefAuthors(m)
      year == BibtexYear(m)
      doi == strip(m.DOI)
      url == strip(m.URL)
      volume == strip(m.volume)
      number == strip(m.issue)
      pages == strip(m.page)
      publisher == strip(m.publisher)
      typ == strip(m.type)
      F(cond, name, value) == IF cond THEN <<<<name, value>>>> ELSE <<>>
  IN (IF typ \in {<<"j", "o", "u", "r", "n", "a", "l", "-", "a", "r", "t", "i", "c", "l", "e">>, <<"j", "o", "u", "r", "n", "a", "l", "-", "i", "s", "s", "u", "e">>}
      THEN <<<<<<"j", "o", "u", "r", "n", "a", "l">>, container>>>>
             \o F(volume # <<>>, <<"v", "o", "l", "u", "m", "e">>, volume)
             \o F(number # <<>>, <<"n", "u", "m", "b", "e", "r">>, number)
             \o F(pages # <<>>, <<"p", "a", "g", "e", "s">>, pages)
      ELSE IF typ \in {<<"p", "r", "o", "c", "e", "e", "d", "i", "n", "g", "s", "-", "a", "r", "t", "i", "c", "l", "e">>, <<"c", "o", "n", "f", "e", "r", "e", "n", "c", "e", "-", "p", "a", "p", "e", "r">>}
      THEN <<<<<<"b", "o", "o", "k", "t", "i", "t", "l", "e">>, container>>>>
             \o F(pages # <<>>, <<"p", "a", "g", "e", "s">>, pages)
             \o F(publisher # <<>>, <<"p", "u", "b", "l", "i", "s", "h", "e", "r">>, publisher)
      ELSE F(container # <<>>, <<"h", "o", "w", "p", "u", "b", "l", "i", "s", "h", "e", "d">>, container))
     \o <<<<<<"t", "i", "t", "l", "e">>, title>>>>
     \o F(authors # <<>>, <<"a", "u", "t", "h", "o", "r">>, join(<<" ", "a", "n", "d", " ">>, authors))
     \o (IF year # None THEN <<<<<<"y", "e", "a", "r">>, str_int(year[1])>>>> ELSE <<>>)
     \o F(doi # <<>>, <<"d", "o", "i">>, doi)
     \o F(url # <<>>, <<"u", "r", "l">>, url)

\* entry_type of bibtex_from_crossref
BibtexEntryType(m) ==
  IF strip(m.type) \in {<<"j", "o", "u", "r", "n", "a", "l", "-", "a", "r", "t", "i", "c", "l", "e">>, <<"j", "o", "u", "r", "n", "a", "l", "-", "i", "s", "s", "u", "e">>} THEN <<"a", "r", "t", "i", "c", "l", "e">>
  ELSE IF strip(m.type) \in {<<"p", "r", "o", "c", "e", "e", "d", "i", "n", "g", "s", "-", "a", "r", "t", "i", "c", "l", "e">>, <<"c", "o", "n", "f", "e", "r", "e", "n", "c", "e", "-", "p", "a", "p", "e", "r">>}
  THEN <<"i", "n", "p", "r", "o", "c", "e", "e", "d", "i", "n", "g", "s">>
  ELSE <<"m", "i", "s", "c">>

\* str.rstrip(",")
rstrip_comma(s) ==
  LET keep == {i \in 1..Len(s) : s[i] # ","}
  IN IF keep = {} THEN <<>> ELSE SubSeq(s, 1, SetMax(keep))

\* one rendered field: "  k={{v}},"
BibtexLine(f) ==
  <<" ", " ">> \o f[1] \o <<"=", "{", "{">> \o latex_escape(f[2]) \o <<"}", "}", ",">>

\* the render loop: the head, one line for each field with a value, the last
\* field's trailing comma removed, and the closing brace
BibtexRender(entry_type, key, fields) ==
  IF key.exc # None THEN key
  ELSE Value(join(<<"\n">>,
         <<<<"@">> \o entry_type \o <<"{">> \o key.val \o <<",">>>>
           \o [i \in 1..Len(fields) |->
                 IF i = Len(fields) THEN rstrip_comma(BibtexLine(fields[i]))
                 ELSE BibtexLine(fields[i])]
           \o <<<<"}">>>>))

\* the family names the key is made from: a.split(",")[0] of each author
BibtexKeyAuthors(authors) ==
  [i \in 1..Len(authors) |-> SplitOn(authors[i], {","})[1]]

bibtex_from_crossref(m) ==
  BibtexRender(BibtexEntryType(m),
               make_key(BibtexKeyAuthors(CrossrefAuthors(m)), BibtexYear(m),
                        FirstOrEmpty(m.title)),
               SelectSeq(BibtexFields(m), LAMBDA f : f[2] # <<>>))

(***************************************************************************)
(* Entry splitter.                                                         *)
(***************************************************************************)
\* re.match(r"^\s*(\[\d+\]|\d+\.)\s+", line): a leading [N] or N. marker that
\* whitespace follows
IsNumbered(line) ==
  LET b == RunEnd(line, 1, Spaces)
      d == RunEnd(line, b, Digits)
      d2 == RunEnd(line, b + 1, Digits)
      e == IF d > b /\ d <= Len(line) /\ line[d] = "." THEN d + 1
           ELSE IF /\ b <= Len(line) /\ line[b] = "[" /\ d2 > b + 1
                   /\ d2 <= Len(line) /\ line[d2] = "]" THEN d2 + 1
           ELSE 0
  IN e > 0 /\ e <= Len(line) /\ line[e] \in Spaces

\* the loop of split_entries over lines[i..]: entries so far and the running entry
RECURSIVE SplitLoop(_, _, _, _)
SplitLoop(lines, i, entries, cur) ==
  IF i > Len(lines)
  THEN IF cur # <<>> THEN Append(entries, strip(cur)) ELSE entries
  ELSE LET line == lines[i]
       IN IF strip(line) = <<>> THEN SplitLoop(lines, i + 1, entries, cur)
          ELSE IF IsNumbered(line) /\ cur # <<>>
          THEN SplitLoop(lines, i + 1, Append(entries, strip(cur)), strip(line))
          ELSE SplitLoop(lines, i + 1, entries,
                         IF cur # <<>> THEN strip(cur \o <<" ">> \o strip(line))
                         ELSE strip(line))

split_entries(raw_in) ==
  LET raw == strip(raw_in)
      all == splitlines(raw)
      lines == [i \in 1..Len(all) |-> rstrip(all[i])]
      entries == SplitLoop(lines, 1, <<>>, <<>>)
      maybe == StrippedNonEmpty(all)
  IN IF raw = <<>> THEN <<>>
     ELSE IF Len(entries) = 1 /\ Contains(raw, <<"\n">>) /\ Len(maybe) >= 2 THEN maybe
     ELSE entries

(***************************************************************************)
(* The sources' side: what the network can answer.  The texts are samples; *)
(* the answers to one request are a set the model chooses from.            *)
(***************************************************************************)
ARXIV_ID == <<"2", "1", "1", "0", ".", "1", "4", "0", "5", "1">>

DOI_1 == <<"1", "0", ".", "1", "0", "0", "7", "/", "s", "1", "1", "6", "3", "3", "-", "0", "2", "3", "-", "1", "4", "5", "9", "-", "z">>

QUERY_TITLE == <<"A", "t", "t", "e", "n", "t", "i", "o", "n", " ", "I", "s", " ", "A", "l", "l", " ", "Y", "o", "u", " ", "N", "e", "e", "d">>

\* arXiv records (arxiv.Result)
AX_FULL ==
  [title |-> <<"U", "n", "i", "f", "i", "e", "d", " ", "S", "u", "r", "v", "e", "y">>, authors |-> <<<<"J", "a", "n", "e", " ", "D", "o", "e">>, <<"L", "i", " ", "W", "e", "i">>>>,
   published |-> Some([year |-> 2021, month |-> 10, day |-> 26]),
   entry_id |-> <<"h", "t", "t", "p", ":", "/", "/", "a", "r", "x", "i", "v", ".", "o", "r", "g", "/", "a", "b", "s", "/", "2", "1", "1", "0", ".", "1", "4", "0", "5", "1">>,
   primary_category |-> Some(<<"c", "s", ".", "C", "V">>)]

\* a record without a publication date and without a primary category
AX_BARE ==
  [title |-> <<"O", "p", "e", "n", "_", "S", "e", "t", " ", "&", " ", "M", "o", "r", "e">>, authors |-> <<<<"P", "l", "a", "t", "o">>>>,
   published |-> None,
   entry_id |-> <<"h", "t", "t", "p", ":", "/", "/", "a", "r", "x", "i", "v", ".", "o", "r", "g", "/", "a", "b", "s", "/", "2", "1", "1", "0", ".", "1", "4", "0", "5", "1", "v", "2">>,
   primary_category |-> None]

\* a record whose first author has an empty name
AX_NONAME ==
  [title |-> <<"U", "n", "i", "f", "i", "e", "d", " ", "S", "u", "r", "v", "e", "y">>, authors |-> <<<<>>>>,
   published |-> Some([year |-> 2021, month |-> 10, day |-> 26]),
   entry_id |-> <<"h", "t", "t", "p", ":", "/", "/", "a", "r", "x", "i", "v", ".", "o", "r", "g", "/", "a", "b", "s", "/", "2", "1", "1", "0", ".", "1", "4", "0", "5", "1">>,
   primary_category |-> Some(<<"c", "s", ".", "C", "V">>)]

ArxivResults == {AX_FULL, AX_BARE, AX_NONAME}

NoDates == [k \in {"issued", "created", "published-print", "published-online"} |-> <<>>]

\* Crossref works (the "message" object).  keys is the set of the keys of the
\* object; a field holds the value of its key, the empty value when the key
\* is absent
CR_FULL ==
  [keys |-> {"title", "container-title", "type", "DOI", "URL", "volume", "issue",
             "page", "publisher", "author", "issued", "created"},
   title |-> <<<<"L", "a", "r", "g", "e", " ", "M", "o", "d", "e", "l", "s">>>>, container_title |-> <<<<"M", "a", "c", "h", ".", " ", "I", "n", "t", "e", "l", "l", ".", " ", "R", "e", "s", ".">>>>,
   type |-> <<"j", "o", "u", "r", "n", "a", "l", "-", "a", "r", "t", "i", "c", "l", "e">>, DOI |-> DOI_1,
   URL |-> <<"h", "t", "t", "p", ":", "/", "/", "d", "x", ".", "d", "o", "i", ".", "o", "r", "g", "/", "1", "0", ".", "1", "0", "0", "7", "/", "s", "1", "1", "6", "3", "3", "-", "0", "2", "3", "-", "1", "4", "5", "9", "-", "z">>,
   volume |-> <<"2", "0">>, issue |-> <<"4">>, page |-> <<"4", "4", "7", "-", "4", "8", "2">>,
   publisher |-> <<"S", "p", "r", "i", "n", "g", "e", "r">>,
   author |-> <<[family |-> <<"W", "a", "n", "g">>, given |-> <<"X", "i", "a", "o">>, name |-> <<>>],
                [family |-> <<>>, given |-> <<>>, name |-> <<"P", "A", "M", "I", " ", "G", "r", "o", "u", "p">>]>>,
   dates |-> [NoDates EXCEPT !["issued"] = <<<<2023, 6>>>>,
                             !["created"] = <<<<2023, 6, 9>>>>]]

\* a work whose "issued" holds no year (date-parts [[null]]) and whose "created"
\* holds a full date; no container title, no authors
CR_NOISSUED ==
  [keys |-> {"title", "type", "DOI", "issued", "created"},
   title |-> <<<<"L", "a", "r", "g", "e", " ", "M", "o", "d", "e", "l", "s">>>>, container_title |-> <<>>,
   type |-> <<"p", "r", "o", "c", "e", "e", "d", "i", "n", "g", "s", "-", "a", "r", "t", "i", "c", "l", "e">>, DOI |-> DOI_1, URL |-> <<>>,
   volume |-> <<>>, issue |-> <<>>, page |-> <<>>, publisher |-> <<>>,
   author |-> <<>>,
   dates |-> [NoDates EXCEPT !["issued"] = <<<<0>>>>,
                             !["created"] = <<<<2020, 3, 1>>>>]]

\* a work whose first author is a bare name that starts with a comma
CR_BADNAME ==
  [keys |-> {"title", "type", "DOI", "author", "issued"},
   title |-> <<<<"L", "a", "r", "g", "e", " ", "M", "o", "d", "e", "l", "s">>>>, container_title |-> <<>>,
   type |-> <<"p", "o", "s", "t", "e", "d", "-", "c", "o", "n", "t", "e", "n", "t">>, DOI |-> DOI_1, URL |-> <<>>,
   volume |-> <<>>, issue |-> <<>>, page |-> <<>>, publisher |-> <<>>,
   author |-> <<[family |-> <<>>, given |-> <<>>, name |-> <<",", " ", "J", "r">>]>>,
   dates |-> [NoDates EXCEPT !["issued"] = <<<<2019>>>>]]

\* the object without keys: {}
CR_EMPTY ==
  [keys |-> {}, title |-> <<>>, container_title |-> <<>>, type |-> <<>>, DOI |-> <<>>,
   URL |-> <<>>, volume |-> <<>>, issue |-> <<>>, page |-> <<>>, publisher |-> <<>>,
   author |-> <<>>, dates |-> NoDates]

CrossrefWorks == {CR_FULL, CR_NOISSUED, CR_BADNAME}

\* Search hits.  score is the value fuzz.token_set_ratio (rapidfuzz) returns for
\* the normalised query title and the normalised title of the hit.
AX_HIT_HIGH == [result |-> AX_FULL, score |-> 100]

AX_HIT_MID == [result |-> AX_BARE, score |-> 88]

AX_HIT_NONAME == [result |-> AX_NONAME, score |-> 97]

\* Semantic Scholar papers: title and externalIds
SS_BOTH == [title |-> <<"U", "n", "i", "f", "i", "e", "d", " ", "S", "u", "r", "v", "e", "y">>, score |-> 80, DOI |-> DOI_1, ArXiv |-> ARXIV_ID]

SS_DOI == [title |-> <<"L", "a", "r", "g", "e", " ", "M", "o", "d", "e", "l", "s">>, score |-> 66, DOI |-> DOI_1, ArXiv |-> <<>>]

SS_UNTITLED == [title |-> <<>>, score |-> 0, DOI |-> DOI_1, ArXiv |-> <<>>]

\* OpenAlex works: title and doi (URL form)
OA_DOI == [title |-> <<"L", "a", "r", "g", "e", " ", "M", "o", "d", "e", "l", "s">>, score |-> 76, doi |-> <<"h", "t", "t", "p", "s", ":", "/", "/", "d", "o", "i", ".", "o", "r", "g", "/">> \o DOI_1]

OA_NODOI == [title |-> <<"L", "a", "r", "g", "e", " ", "M", "o", "d", "e", "l">>, score |-> 90, doi |-> <<>>]

\* Crossref search items: title (a list) and DOI
CS_ITEM == [title |-> <<<<"L", "a", "r", "g", "e", " ", "M", "o", "d", "e", "l", "s">>>>, score |-> 68, DOI |-> DOI_1]

CS_UNTITLED == [title |-> <<>>, score |-> 0, DOI |-> DOI_1]

\* an item of the same title as CS_ITEM (and so of the same score), without a DOI
CS_TWIN == [title |-> CS_ITEM.title, score |-> CS_ITEM.score, DOI |-> <<>>]

\* One answer of the network: a transport error or timeout (an exception in
\* the adapter), or a response with its HTTP status and decoded body.  "hit"
\* marks a call answered by the cache, which reaches no network.
NetError == [kind |-> "error", status |-> 0, body |-> <<>>]

NetResponse(status, body) == [kind |-> "http", status |-> status, body |-> body]

CacheHit == [kind |-> "hit", status |-> 0, body |-> <<>>]

\* GET /works/{doi}: the body is the optional "message" object
NetCrossrefWork(doi) ==
  {NetError, NetResponse(404, None), NetResponse(200, Some(CR_EMPTY))}
    \cup {NetResponse(200, Some(w)) : w \in {x \in CrossrefWorks : x.DOI = doi}}

\* GET /works?query.title=: the body is message.items
NetCrossrefSearch(q) ==
  {NetError, NetResponse(500, <<>>), NetResponse(200, <<CS_UNTITLED, CS_ITEM>>),
   NetResponse(200, <<CS_TWIN, CS_ITEM>>)}

\* GET /works?search= of OpenAlex: the body is results
NetOpenAlex(q) ==
  {NetError, NetResponse(429, <<>>), NetResponse(200, <<OA_DOI>>),
   NetResponse(200, <<OA_NODOI, OA_DOI>>)}

\* GET /paper/search of Semantic Scholar: the body is data
NetSemanticScholar(q) ==
  {NetError, NetResponse(429, <<>>), NetResponse(200, <<SS_UNTITLED, SS_DOI, SS_BOTH>>),
   NetResponse(200, <<SS_DOI>>)}

\* arxiv.Client().results(Search(id_list=[id])): the body is the result list
NetArxivById(id) ==
  {NetError, NetResponse(200, <<>>)}
    \cup {NetResponse(200, <<r>>) : r \in {x \in ArxivResults : StartsAt(get_short_id(x), 1, id)}}

\* arxiv.Client().results(Search(query=..., max_results=12))
NetArxivSearch(q) ==
  {NetError, NetResponse(200, <<>>), NetResponse(200, <<AX_HIT_MID, AX_HIT_HIGH>>),
   NetResponse(200, <<AX_HIT_NONAME>>)}

\* the same with the broader query
NetArxivFallback(q) ==
  {NetError, NetResponse(200, <<>>), NetResponse(200, <<AX_HIT_MID>>),
   NetResponse(200, <<AX_HIT_HIGH>>)}

(***************************************************************************)
(* Source adapters: what each returns for one answer of the network.  The  *)
(* st.cache_data decorator keeps the returned value, keyed by the function *)
(* and its arguments; a cached call reaches no network.                    *)
(***************************************************************************)
\* results[0] if results else None; None on an exception
arxiv_by_id(out) ==
  IF out.kind = "error" THEN Value(None)
  ELSE Value(IF out.body # <<>> THEN Some(out.body[1]) ELSE None)

\* list(client.results(search)); [] on an exception
arxiv_search_title(out) ==
  IF out.kind = "error" THEN Value(<<>>) ELSE Value(out.body)

\* a variant of crossref_work without the except clause: a transport error is
\* raised to the caller
crossref_work_Raising(out) ==
  IF out.kind = "error" THEN Raise("ConnectionError")
  ELSE IF out.status # 200 THEN Value(None)
  ELSE Value(out.body)

\* r.json().get("message"); None on an exception or a status other than 200
crossref_work(out) ==
  IF out.kind = "error" THEN Value(None)
  ELSE IF out.status # 200 THEN Value(None)
  ELSE Value(out.body)

\* message.items; [] on an exception or a status other than 200
crossref_search(out) ==
  IF out.kind = "error" THEN Value(<<>>)
  ELSE IF out.status # 200 THEN Value(<<>>)
  ELSE Value(out.body)

openalex_search(out) ==
  IF out.kind = "error" THEN Value(<<>>)
  ELSE IF out.status # 200 THEN Value(<<>>)
  ELSE Value(out.body)

semanticscholar_search(out) ==
  IF out.kind = "error" THEN Value(<<>>)
  ELSE IF out.status # 200 THEN Value(<<>>)
  ELSE Value(out.body)

\* the uncached broader query of best_arxiv_match (its own try / except)
ArxivFallbackSearch(out) ==
  IF out.kind = "error" THEN Value(<<>>) ELSE Value(out.body)

\* the cache key of a call: the function and its arguments (n: rows or limit)
CacheKey(op, arg, n) == <<op, arg, n>>

\* the answers a cached call can get: the cached value, else one of the network's
Outcomes(c, key, net) == IF key \in DOMAIN c THEN {CacheHit} ELSE net

\* the value a cached call returns (or the exception it raises) for one answer
CallResult(c, key, out, computed) ==
  IF out.kind = "hit" THEN Value(c[key]) ELSE computed

\* a variant of CacheAfter that keeps no empty value (None or []), so that a
\* failed call is sent again
CacheAfter_SkipEmpty(c, key, out, computed) ==
  IF out.kind = "hit" \/ computed.exc # None \/ computed.val = <<>> THEN c
  ELSE (key :> computed.val) @@ c

\* the cache after the call: a returned value is stored, an exception is not
CacheAfter(c, key, out, computed) ==
  IF out.kind = "hit" \/ computed.exc # None THEN c
  ELSE (key :> computed.val) @@ c

\* "if m:" for the value of crossref_work: None is false, and so is the
\* object without keys
WorkFound(m) == m # None /\ m[1].keys # {}

\* the truth value resolve_one tests of what an adapter returned: a work as
\* above; None and the empty list are false
Truthy(op, v) == IF op = "crossref_work" THEN WorkFound(v) ELSE v # <<>>

\* one adapter call of the log of a resolution: its tier, its cache key, whether
\* it reached the network, whether the network failed (a transport error or a
\* status other than 200), and whether the call returned a non-empty value
LogEntry(tier, key, out, got) ==
  [tier |-> tier, op |-> key[1], key |-> key, net |-> out.kind # "hit",
   failed |-> out.kind = "error" \/ (out.kind = "http" /\ out.status # 200),
   found |-> got.exc = None /\ Truthy(key[1], got.val)]

(***************************************************************************)
(* Fuzzy matcher.                                                          *)
(***************************************************************************)
\* fuzz.token_set_ratio(nt, _norm(c.title)) of rapidfuzz for a search hit
token_set_ratio(hit) == hit.score

\* a variant of the loop of the matchers that replaces the best hit on an
\* equal score too (score >= best_score)
RECURSIVE MatchLoop_LastWins(_, _, _, _)
MatchLoop_LastWins(hits, i, best_hit, best_score) ==
  IF i > Len(hits) THEN [best |-> best_hit, score |-> best_score]
  ELSE IF token_set_ratio(hits[i]) >= best_score
  THEN MatchLoop_LastWins(hits, i + 1, Some(hits[i]), token_set_ratio(hits[i]))
  ELSE MatchLoop_LastWins(hits, i + 1, best_hit, best_score)

\* the loop shared by the three matchers, from hits[i] on: a hit replaces the
\* best one only when its score is higher (score > best_score)
RECURSIVE MatchLoop(_, _, _, _)
MatchLoop(hits, i, best_hit, best_score) ==
  IF i > Len(hits) THEN [best |-> best_hit, score |-> best_score]
  ELSE IF token_set_ratio(hits[i]) > best_score
  THEN MatchLoop(hits, i + 1, Some(hits[i]), token_set_ratio(hits[i]))
  ELSE MatchLoop(hits, i + 1, best_hit, best_score)

\* if best and best_score >= threshold: return best, best_score;
\* return None, best_score
Accept(found, thr) ==
  IF found.best # None /\ found.score >= thr THEN found
  ELSE [best |-> None, score |-> found.score]

\* the three matchers from their candidates on: best, best_score = None, -1,
\* the loop, and the test against the threshold
SelectBest(hits, thr) == Accept(MatchLoop(hits, 1, None, -1), thr)

\* best_arxiv_match, from the candidates on
best_arxiv_match(candidates, thr) == SelectBest(candidates, thr)

\* best_title_match_from_candidates over the titled hits of a search
best_title_match_from_candidates(hits, thr) ==
  SelectBest(SelectSeq(hits, LAMBDA it : it.title # <<>>), thr)

\* best_crossref_match, from the items on: items without a title are skipped
best_crossref_match(items, thr) ==
  SelectBest(SelectSeq(items, LAMBDA it : it.title # <<>> /\ it.title[1] # <<>>),
             thr)

\* max(a, b)
Max2(a, b) == IF a >= b THEN a ELSE b

\* the acceptance thresholds of the title tiers
Tier3Threshold(t) == t

Tier4Threshold(t) == Max2(70, t - 10)

Tier5Threshold(t) == Max2(70, t - 10)

\* a variant of Tier6Threshold with a floor above that of tiers 4 and 5
Tier6Threshold_HighFloor(t) == Max2(75, t - 15)

Tier6Threshold(t) == Max2(65, t - 15)

(***************************************************************************)
(* Result records.                                                         *)
(***************************************************************************)
\* The messages and the source labels stand for the literals of the code,
\* whose non-ASCII words are written here in English.
MSG_EMPTY_INPUT == "empty input"

MSG_NO_MATCH == "no reliable match: paste a DOI / arXiv ID directly, or give a fuller title"

SRC_DOI == "DOI/Crossref"

SRC_ARXIV == "arXiv"

SRC_ARXIV_TITLE == "arXiv(title match, score=)"

SRC_SS_ARXIV == "SemanticScholar->arXiv(score=)"

SRC_SS_DOI == "SemanticScholar->DOI/Crossref(score=)"

SRC_OA_DOI == "OpenAlex->DOI/Crossref(score=)"

SRC_CR_TITLE == "Crossref(title match, score=)"

\* BibResult; source is the label with the score an f-string puts into it
BibResult(raw, ok, label, score, matched_title, bibtex, ris, message) ==
  [raw |-> raw, ok |-> ok, source |-> [label |-> label, score |-> score],
   matched_title |-> matched_title, bibtex |-> bibtex, ris |-> ris,
   message |-> message]

\* a variant of EmptyInputResult that carries the message of the final failure
EmptyInputResult_NoMatchMessage(raw) ==
  BibResult(raw, FALSE, "", None, None, None, None, Some(MSG_NO_MATCH))

\* the result of the empty input
EmptyInputResult(raw) ==
  BibResult(raw, FALSE, "", None, None, None, None, Some(MSG_EMPTY_INPUT))

\* a variant of NoMatchResult that leaves the message out
NoMatchResult_NoMessage(raw) ==
  BibResult(raw, FALSE, "", None, None, None, None, None)

\* the result when no tier matched
NoMatchResult(raw) ==
  BibResult(raw, FALSE, "", None, None, None, None, Some(MSG_NO_MATCH))

\* the result of tier 1 when a converter raised: str(e) is the message
ConversionFailedResult(raw, msg) ==
  BibResult(raw, FALSE, SRC_DOI, None, None, None, None, Some(msg))

\* ((m.get("title") or [""])[0] if m.get("title") else None)
CrossrefMatchedTitle(m) == IF m.title # <<>> THEN Some(m.title[1]) ELSE None

\* a success built from an arXiv record, or the exception of its converter
ArxivSuccess(raw, label, score, r, bib) ==
  IF bib.exc # None THEN bib
  ELSE Value(BibResult(raw, TRUE, label, score, Some(r.title),
                       Some(bib.val), Some(format_arxiv_to_ris(r)), None))

ArxivResult(raw, label, score, r) ==
  ArxivSuccess(raw, label, score, r, format_arxiv_to_bibtex(r))

\* a success built from a Crossref work, or the exception of its converter
CrossrefSuccess(raw, label, score, m, bib) ==
  IF bib.exc # None THEN bib
  ELSE Value(BibResult(raw, TRUE, label, score, CrossrefMatchedTitle(m),
                       Some(bib.val), Some(ris_from_crossref(m)), None))

CrossrefResult(raw, label, score, m) ==
  CrossrefSuccess(raw, label, score, m, bibtex_from_crossref(m))

(***************************************************************************)
(* The program: a paste is split into entries and resolve_one runs on each *)
(* entry in turn (the run_now handler); the cache outlives the runs.       *)
(***************************************************************************)
\* the slider of the match threshold
ThresholdMin == 60

ThresholdMax == 95

\* the thresholds of the runs: the ends of the slider, its default (85), and
\* the values next to which a floor (70, 65) or the score of a sample hit makes
\* a tier accept or refuse
Thresholds == {60, 66, 69, 70, 80, 83, 84, 85, 88, 89, 90, 91, 95}

\* how many times the same paste is converted
MaxRuns == 2

\* the pastes of the text area
Pastes ==
  {<<"2", "1", "1", "0", ".", "1", "4", "0", "5", "1">>,
   <<"A", "t", "t", "e", "n", "t", "i", "o", "n", " ", "I", "s", " ", "A", "l", "l", " ", "Y", "o", "u", " ", "N", "e", "e", "d">>,
   <<"1", "0", ".", "1", "0", "0", "7", "/", "s", "1", "1", "6", "3", "3", "-", "0", "2", "3", "-", "1", "4", "5", "9", "-", "z", " ", "a", "r", "X", "i", "v", ":", "2", "1", "1", "0", ".", "1", "4", "0", "5", "1">>,
   <<"[", "1", "]", " ", "a", "r", "X", "i", "v", " ", "1", "0", ".", "1", "0", "0", "7", "/", "s", "1", "1", "6", "3", "3", "-", "0", "2", "3", "-", "1", "4", "5", "9", "-", "z", "\n", "[", "2", "]", " ", "a", "r", "X", "i", "v", ":", "2", "1", "1", "0", ".", "1", "4", "0", "5", "1">>,
   <<"a", "r", "X", "i", "v", ":", "2", "1", "1", "0", ".", "1", "4", "0", "5", "1", "\n", "a", "r", "x", "i", "v">>,
   <<"a", "r", "X", "i", "v", ":", "2", "1", "1", "0", ".", "1", "4", "0", "5", "1", "\r", "a", "r", "x", "i", "v">>,
   <<" ", "\n">>}

\* texts given to resolve_one without the splitter
DirectInputs == {<<>>, <<" ", " ">>}

VARIABLES
  raw_text,       \* the paste (or the text resolve_one is called with)
  threshold,      \* the match threshold
  entries,        \* split_entries(raw_text)
  idx,            \* the entry being resolved
  results,        \* the results of the entries resolved in this run
  batch,          \* "running", "done" or "aborted" (an exception left the loop)
  run,            \* the number of this run
  first_results,  \* the results of the first run
  cache,          \* st.cache_data: cache key -> returned value
  pc,             \* the place of resolve_one
  doi,            \* extract_doi(text), optional
  arxiv_id,       \* extract_arxiv_id(text), optional
  title,          \* guess_title(text)
  best,           \* the accepted hit of the tier, optional
  score,          \* its score
  calls,          \* the adapter calls of this resolution, in order
  ret             \* the BibResult resolve_one returned, optional

vars ==
  <<raw_text, threshold, entries, idx, results, batch, run, first_results,
    cache, pc, doi, arxiv_id, title, best, score, calls, ret>>

\* the paste, the threshold and the entries do not change
input == <<raw_text, threshold, entries>>

\* the progress of the batch
loop == <<idx, results, batch, run, first_results>>

\* the signals extracted from the entry
signals == <<doi, arxiv_id, title>>

raw == entries[idx]

Init ==
  /\ threshold \in Thresholds
  /\ \/ /\ raw_text \in Pastes
        /\ entries = split_entries(raw_text)
     \/ /\ raw_text \in DirectInputs
        /\ entries = <<raw_text>>
  /\ idx = 1
  /\ results = <<>>
  /\ batch = IF entries = <<>> THEN "done" ELSE "running"
  /\ run = 1
  /\ first_results = <<>>
  /\ cache = <<>>
  /\ pc = IF entries = <<>> THEN "idle" ELSE "call"
  /\ doi = None
  /\ arxiv_id = None
  /\ title = <<>>
  /\ best = None
  /\ score = -1
  /\ calls = <<>>
  /\ ret = None

\* resolve_one returns res
Return(res) == pc' = "returned" /\ ret' = Some(res)

\* an exception leaves resolve_one
Raised == pc' = "raised" /\ ret' = None

Goto(next) == pc' = next /\ ret' = None

\* return the converted record, or let the converter's exception through
ReturnOrRaise(res) == IF res.exc # None THEN Raised ELSE Return(res.val)

\* a variant of ReturnOrFail that does not return on a success but goes on to
\* tier 2
ReturnOrFail_FallThrough(res) ==
  IF res.exc # None THEN Return(ConversionFailedResult(raw, res.exc[1]))
  ELSE Goto("tier2")

\* a variant of ReturnOrFail without the except clause: the exception leaves
\* resolve_one
ReturnOrFail_Propagating(res) ==
  IF res.exc # None THEN Raised ELSE Return(res.val)

\* lines 631-638: return the converted record, or the failure the except
\* clause builds from the converter's exception
ReturnOrFail(res) ==
  IF res.exc # None THEN Return(ConversionFailedResult(raw, res.exc[1]))
  ELSE Return(res.val)

\* lines 620-626: the empty input, else the three extractors
Start ==
  /\ pc = "call"
  /\ LET text == strip(raw)
     IN IF text = <<>>
        THEN /\ Return(EmptyInputResult(raw))
             /\ UNCHANGED signals
        ELSE /\ doi' = extract_doi(text)
             /\ arxiv_id' = extract_arxiv_id(text)
             /\ title' = guess_title(text)
             /\ Goto("tier1")
  /\ calls' = <<>>
  /\ UNCHANGED <<input, loop, cache, best, score>>

\* a cached adapter call answered by out: the returned value is stored and
\* the call is logged
Called(tier, key, out, computed) ==
  /\ cache' = CacheAfter(cache, key, out, computed)
  /\ calls' = Append(calls, LogEntry(tier, key, out, CallResult(cache, key, out, computed)))

\* crossref_work(d) answered by out, and the value the call returns
CrossrefKey(d) == CacheKey("crossref_work", d, 0)

CrossrefFetch(tier, d, out) == Called(tier, CrossrefKey(d), out, crossref_work(out))

CrossrefGot(d, out) == CallResult(cache, CrossrefKey(d), out, crossref_work(out))

\* arxiv_by_id(id) answered by out, and the value the call returns
ArxivKey(id) == CacheKey("arxiv_by_id", id, 0)

ArxivFetch(tier, id, out) == Called(tier, ArxivKey(id), out, arxiv_by_id(out))

ArxivGot(id, out) == CallResult(cache, ArxivKey(id), out, arxiv_by_id(out))

\* tier 1 after crossref_work(doi): the converters run inside try / except
Tier1Then(m) ==
  IF m.exc # None THEN Raised
  ELSE IF ~WorkFound(m.val) THEN Goto("tier2")
  ELSE ReturnOrFail(CrossrefResult(raw, SRC_DOI, None, m.val[1]))

\* tier 1: DOI -> Crossref
Tier1 ==
  /\ pc = "tier1"
  /\ IF doi = None
     THEN Goto("tier2") /\ UNCHANGED <<cache, calls>>
     ELSE \E out \in Outcomes(cache, CrossrefKey(doi[1]), NetCrossrefWork(doi[1])) :
            /\ CrossrefFetch(1, doi[1], out)
            /\ Tier1Then(CrossrefGot(doi[1], out))
  /\ UNCHANGED <<input, loop, signals, best, score>>

\* after arxiv_by_id: the record is converted outside any try
ArxivThen(r, label, sc, next) ==
  IF r.exc # None THEN Raised
  ELSE IF r.val = None THEN Goto(next)
  ELSE ReturnOrRaise(ArxivResult(raw, label, sc, r.val[1]))

\* tier 2: arXiv id -> arXiv
Tier2 ==
  /\ pc = "tier2"
  /\ IF arxiv_id = None
     THEN Goto("tier3") /\ UNCHANGED <<cache, calls>>
     ELSE \E out \in Outcomes(cache, ArxivKey(arxiv_id[1]), NetArxivById(arxiv_id[1])) :
            /\ ArxivFetch(2, arxiv_id[1], out)
            /\ ArxivThen(ArxivGot(arxiv_id[1], out), SRC_ARXIV, None, "tier3")
  /\ UNCHANGED <<input, loop, signals, best, score>>

\* the end of tier 3: the best candidate at the caller's threshold
Tier3Select(sel) ==
  IF sel.best = None THEN Goto("tier4")
  ELSE ReturnOrRaise(ArxivResult(raw, SRC_ARXIV_TITLE, Some(sel.score),
                                 sel.best[1].result))

Tier3Match(candidates) ==
  Tier3Select(best_arxiv_match(candidates, Tier3Threshold(threshold)))

\* tier 3 after arxiv_search_title: no candidates lead to the broader query
Tier3Then(candidates) ==
  IF candidates.exc # None THEN Raised
  ELSE IF candidates.val = <<>> THEN Goto("tier3_fallback")
  ELSE Tier3Match(candidates.val)

Tier3Key == CacheKey("arxiv_search_title", title, 12)

\* tier 3: the cached title-field search of best_arxiv_match
Tier3 ==
  /\ pc = "tier3"
  /\ IF title = <<>>
     THEN Goto("tier4") /\ UNCHANGED <<cache, calls>>
     ELSE \E out \in Outcomes(cache, Tier3Key, NetArxivSearch(title)) :
            /\ Called(3, Tier3Key, out, arxiv_search_title(out))
            /\ Tier3Then(CallResult(cache, Tier3Key, out, arxiv_search_title(out)))
  /\ UNCHANGED <<input, loop, signals, best, score>>

\* tier 3, no candidates: the broader query, sent by best_arxiv_match itself
Tier3Fallback ==
  /\ pc = "tier3_fallback"
  /\ \E out \in NetArxivFallback(title) :
       /\ calls' = Append(calls, LogEntry(3, CacheKey("arxiv_fallback", title, 12), out,
                                          ArxivFallbackSearch(out)))
       /\ Tier3Match(ArxivFallbackSearch(out).val)
  /\ UNCHANGED <<input, loop, signals, cache, best, score>>

\* after the search of tiers 4 to 6: the accepted hit is kept for the fetches
SearchThen(hits, sel, found, next) ==
  IF hits.exc # None
  THEN Raised /\ UNCHANGED <<best, score>>
  ELSE /\ best' = sel.best
       /\ score' = sel.score
       /\ Goto(IF sel.best = None THEN next ELSE found)

Tier4Key == CacheKey("semanticscholar_search", title, 10)

\* tier 4: Semantic Scholar search, matched at max(70, threshold - 10)
Tier4 ==
  /\ pc = "tier4"
  /\ IF title = <<>>
     THEN Goto("tier5") /\ UNCHANGED <<cache, calls, best, score>>
     ELSE \E out \in Outcomes(cache, Tier4Key, NetSemanticScholar(title)) :
            /\ Called(4, Tier4Key, out, semanticscholar_search(out))
            /\ SearchThen(CallResult(cache, Tier4Key, out, semanticscholar_search(out)),
                 best_title_match_from_candidates(
                   CallResult(cache, Tier4Key, out, semanticscholar_search(out)).val,
                   Tier4Threshold(threshold)),
                 "tier4_arxiv", "tier5")
  /\ UNCHANGED <<input, loop, signals>>

\* arx2: the arXiv id of the accepted paper
SemanticScholarArxiv(hit) == strip(hit.ArXiv)

\* tier 4: the accepted paper's arXiv id first
Tier4Arxiv ==
  /\ pc = "tier4_arxiv"
  /\ IF SemanticScholarArxiv(best[1]) = <<>>
     THEN Goto("tier4_doi") /\ UNCHANGED <<cache, calls>>
     ELSE \E out \in Outcomes(cache, ArxivKey(SemanticScholarArxiv(best[1])),
                              NetArxivById(SemanticScholarArxiv(best[1]))) :
            /\ ArxivFetch(4, SemanticScholarArxiv(best[1]), out)
            /\ ArxivThen(ArxivGot(SemanticScholarArxiv(best[1]), out),
                         SRC_SS_ARXIV, Some(score), "tier4_doi")
  /\ UNCHANGED <<input, loop, signals, best, score>>

\* after crossref_work of tiers 4 to 6: the work is converted outside any try
DoiThen(m, label, next) ==
  IF m.exc # None THEN Raised
  ELSE IF ~WorkFound(m.val) THEN Goto(next)
  ELSE ReturnOrRaise(CrossrefResult(raw, label, Some(score), m.val[1]))

\* a Crossref fetch by the DOI of an accepted hit (tiers 4 to 6)
DoiStep(tier, d, label, next) ==
  IF d = <<>>
  THEN Goto(next) /\ UNCHANGED <<cache, calls>>
  ELSE \E out \in Outcomes(cache, CrossrefKey(d), NetCrossrefWork(d)) :
         /\ CrossrefFetch(tier, d, out)
         /\ DoiThen(CrossrefGot(d, out), label, next)

\* tier 4: then the accepted paper's DOI
Tier4Doi ==
  /\ pc = "tier4_doi"
  /\ DoiStep(4, strip(best[1].DOI), SRC_SS_DOI, "tier5")
  /\ UNCHANGED <<input, loop, signals, best, score>>

Tier5Key == CacheKey("openalex_search", title, 10)

\* tier 5: OpenAlex search, matched at max(70, threshold - 10)
Tier5 ==
  /\ pc = "tier5"
  /\ IF title = <<>>
     THEN Goto("tier6") /\ UNCHANGED <<cache, calls, best, score>>
     ELSE \E out \in Outcomes(cache, Tier5Key, NetOpenAlex(title)) :
            /\ Called(5, Tier5Key, out, openalex_search(out))
            /\ SearchThen(CallResult(cache, Tier5Key, out, openalex_search(out)),
                 best_title_match_from_candidates(
                   CallResult(cache, Tier5Key, out, openalex_search(out)).val,
                   Tier5Threshold(threshold)),
                 "tier5_doi", "tier6")
  /\ UNCHANGED <<input, loop, signals>>

\* doi3: the DOI of the accepted work's doi URL
OpenAlexDoi(hit) ==
  replace(replace(strip(hit.doi), <<"h", "t", "t", "p", "s", ":", "/", "/", "d", "o", "i", ".", "o", "r", "g", "/">>, <<>>), <<"h", "t", "t", "p", ":", "/", "/", "d", "o", "i", ".", "o", "r", "g", "/">>, <<>>)

Tier5Doi ==
  /\ pc = "tier5_doi"
  /\ DoiStep(5, OpenAlexDoi(best[1]), SRC_OA_DOI, "tier6")
  /\ UNCHANGED <<input, loop, signals, best, score>>

Tier6Key == CacheKey("crossref_search", title, 10)

\* tier 6: Crossref title search, matched at max(65, threshold - 15)
Tier6 ==
  /\ pc = "tier6"
  /\ IF title = <<>>
     THEN Goto("fail") /\ UNCHANGED <<cache, calls, best, score>>
     ELSE \E out \in Outcomes(cache, Tier6Key, NetCrossrefSearch(title)) :
            /\ Called(6, Tier6Key, out, crossref_search(out))
            /\ SearchThen(CallResult(cache, Tier6Key, out, crossref_search(out)),
                 best_crossref_match(
                   CallResult(cache, Tier6Key, out, crossref_search(out)).val,
                   Tier6Threshold(threshold)),
                 "tier6_doi", "fail")
  /\ UNCHANGED <<input, loop, signals>>

Tier6Doi ==
  /\ pc = "tier6_doi"
  /\ DoiStep(6, strip(best[1].DOI), SRC_CR_TITLE, "fail")
  /\ UNCHANGED <<input, loop, signals, best, score>>

\* lines 727-735: no tier matched
NoMatch ==
  /\ pc = "fail"
  /\ Return(NoMatchResult(raw))
  /\ UNCHANGED <<input, loop, signals, cache, best, score, calls>>

\* the locals of resolve_one are gone once it has returned or raised
ClearLocals ==
  /\ doi' = None
  /\ arxiv_id' = None
  /\ title' = <<>>
  /\ best' = None
  /\ score' = -1
  /\ calls' = <<>>
  /\ ret' = None

\* line 840: the result joins the list and the next entry is resolved
Collect ==
  /\ pc = "returned"
  /\ results' = Append(results, ret[1])
  /\ IF idx < Len(entries)
     THEN idx' = idx + 1 /\ pc' = "call" /\ batch' = batch
     ELSE idx' = idx /\ pc' = "idle" /\ batch' = "done"
  /\ ClearLocals
  /\ UNCHANGED <<input, run, first_results, cache>>

\* line 840: an exception of resolve_one leaves the loop; no list is assigned
Abort ==
  /\ pc = "raised"
  /\ results' = <<>>
  /\ batch' = "aborted"
  /\ pc' = "idle"
  /\ ClearLocals
  /\ UNCHANGED <<input, idx, run, first_results, cache>>

\* the same paste is converted again with the same threshold
Rerun ==
  /\ pc = "idle"
  /\ run < MaxRuns
  /\ run' = run + 1
  /\ first_results' = IF run = 1 THEN results ELSE first_results
  /\ results' = <<>>
  /\ idx' = 1
  /\ batch' = IF entries = <<>> THEN "done" ELSE "running"
  /\ pc' = IF entries = <<>> THEN "idle" ELSE "call"
  /\ UNCHANGED <<input, cache, signals, best, score, calls, ret>>

Next ==
  \/ Start
  \/ Tier1
  \/ Tier2
  \/ Tier3
  \/ Tier3Fallback
  \/ Tier4
  \/ Tier4Arxiv
  \/ Tier4Doi
  \/ Tier5
  \/ Tier5Doi
  \/ Tier6
  \/ Tier6Doi
  \/ NoMatch
  \/ Collect
  \/ Abort
  \/ Rerun

Spec == Init /\ [][Next]_vars

(***************************************************************************)
(* Properties of resolve_one and of the batch loop.                        *)
(***************************************************************************)
\* the tier that gives a source label
TierOf(label) ==
  CASE label = SRC_DOI -> 1
    [] label = SRC_ARXIV -> 2
    [] label = SRC_ARXIV_TITLE -> 3
    [] label \in {SRC_SS_ARXIV, SRC_SS_DOI} -> 4
    [] label = SRC_OA_DOI -> 5
    [] label = SRC_CR_TITLE -> 6
    [] OTHER -> 0

\* the adapters that fetch one record by its identifier
Fetches == {"crossref_work", "arxiv_by_id"}

\* the calls that go to arXiv
ArxivCalls == {"arxiv_by_id", "arxiv_search_title", "arxiv_fallback"}

LastCall == calls[Len(calls)]

\* a result record as the data model wants it
WellFormed(r) ==
  IF r.ok
  THEN \/ r.bibtex # None /\ r.bibtex[1] # <<>>
       \/ r.ris # None /\ r.ris[1] # <<>>
  ELSE /\ r.bibtex = None
       /\ r.ris = None
       /\ r.message # None
       /\ r.message[1] # ""

\* C1: every BibResult that resolve_one returns (and so every record of the
\* result list) has, when ok, a non-empty bibtex or a non-empty ris, and when
\* not ok, neither bibtex nor ris and a non-empty message.
C1_ResultWellFormed ==
  /\ ret # None => WellFormed(ret[1])
  /\ \A i \in 1..Len(results) : WellFormed(results[i])

\* a batch with a success and a failure among its results
C1_SuccessAndFailure ==
  \E i, j \in 1..Len(results) : results[i].ok /\ ~results[j].ok /\ results[j].message # None

\* C2: the tiers are walked in the order 1 to 6 and the walk stops at the first
\* success: the tiers of the adapter calls never decrease; a fetch that finds a
\* record is the last call; a success carries the label of the tier of the last
\* call, and every earlier tier whose signal is present was tried before it;
\* with a DOI and an arXiv id in the input and a record found and converted
\* for the DOI, the label is DOI/Crossref and arXiv is never called.
C2_TierOrder ==
  /\ \A i \in 1..(Len(calls) - 1) : calls[i].tier <= calls[i + 1].tier
  /\ \A i \in 1..Len(calls) :
       (calls[i].op \in Fetches /\ calls[i].found) => i = Len(calls)
  /\ (ret # None /\ ret[1].ok) =>
       /\ calls # <<>>
       /\ LastCall.found
       /\ LastCall.tier = TierOf(ret[1].source.label)
       /\ (doi # None) => \E i \in 1..Len(calls) : calls[i].tier = 1
       /\ (arxiv_id # None /\ LastCall.tier > 2) =>
            \E i \in 1..Len(calls) : calls[i].tier = 2
       /\ \A k \in 3..(LastCall.tier - 1) :
            \E i \in 1..Len(calls) : calls[i].tier = k
  /\ (ret # None /\ ret[1].ok /\ doi # None /\ arxiv_id # None /\ calls[1].found) =>
       /\ ret[1].source.label = SRC_DOI
       /\ \A i \in 1..Len(calls) : calls[i].op \notin ArxivCalls

\* a DOI and an arXiv id in the input, and the DOI's record converted
C2_DoiBeforeArxiv ==
  /\ ret # None
  /\ ret[1].ok
  /\ doi # None
  /\ arxiv_id # None
  /\ ret[1].source.label = SRC_DOI
  /\ Len(calls) = 1

\* C3: a failure while resolving one entry never aborts the batch: no exception
\* leaves resolve_one, and a finished batch has one result for each entry, in
\* the order of the entries.
C3_BatchCompletes ==
  /\ pc # "raised"
  /\ batch # "aborted"
  /\ batch = "done" =>
       /\ Len(results) = Len(entries)
       /\ \A i \in 1..Len(results) : results[i].raw = entries[i]

\* the batch aborted at its second entry: the first entry's result is lost
C3_AbortedAtSecondEntry ==
  /\ batch = "aborted"
  /\ Len(entries) = 2
  /\ idx = 2
  /\ results = <<>>

\* C4: the second pass over the same entries with the same threshold reaches
\* no network, and returns for each entry the record the first pass returned.
C4_SecondPassIdempotent ==
  run >= 2 =>
    /\ \A i \in 1..Len(calls) : ~calls[i].net
    /\ (ret # None /\ idx <= Len(first_results)) => ret[1] = first_results[idx]

\* the second pass sent the broader arXiv query again and returned another
\* record than the first pass
C4_FallbackSentAgain ==
  /\ run = 2
  /\ ret # None
  /\ idx <= Len(first_results)
  /\ ret[1] # first_results[idx]
  /\ \E i \in 1..Len(calls) : calls[i].net /\ calls[i].op = "arxiv_fallback"

\* a RIS line "TG  - " with no value (the ER line ends the record and has none)
EmptyRisTag(line) ==
  /\ Len(line) >= 5
  /\ SubSeq(line, 3, 5) = <<" ", " ", "-">>
  /\ SubSeq(line, 1, 2) # <<"E", "R">>
  /\ strip(SubSeq(line, 6, Len(line))) = <<>>

\* C5: no generated BibTeX holds a field with an empty or placeholder value
\* (empty braces, None), and no generated RIS holds a tag with no value.
C5_NoEmptyFields ==
  (ret # None /\ ret[1].ok) =>
    /\ ~Contains(ret[1].bibtex[1], <<"=", "{", "{", "}", "}">>)
    /\ ~Contains(ret[1].bibtex[1], <<"=", "{", "}">>)
    /\ ~Contains(ret[1].bibtex[1], <<"=", "{", "{", "N", "o", "n", "e", "}", "}">>)
    /\ \A i \in 1..Len(splitlines(ret[1].ris[1])) :
         ~EmptyRisTag(splitlines(ret[1].ris[1])[i])

\* an arXiv record with no primary category and no date was converted
C5_EmptyBracesEmitted ==
  /\ ret # None
  /\ ret[1].ok
  /\ Contains(ret[1].bibtex[1], <<"p", "r", "i", "m", "a", "r", "y", "C", "l", "a", "s", "s", "=", "{", "{", "}", "}">>)
  /\ Contains(ret[1].bibtex[1], <<"y", "e", "a", "r", "=", "{", "{", "N", "o", "n", "e", "}", "}">>)

\* C6: for the input 2110.14051 and any threshold, when arXiv returns the
\* record of that id, resolve_one returns a success with the label arXiv and a
\* BibTeX text that holds eprint={2110.14051}.
C6_BareArxivId ==
  (raw_text = ARXIV_ID /\ ret # None /\ LastCall.tier = 2 /\ LastCall.found) =>
    /\ ret[1].ok
    /\ ret[1].source.label = SRC_ARXIV
    /\ Contains(ret[1].bibtex[1], <<"e", "p", "r", "i", "n", "t", "=", "{", "2", "1", "1", "0", ".", "1", "4", "0", "5", "1", "}">>)

\* the id is written in two pairs of braces
C6_DoubleBraces ==
  /\ raw_text = ARXIV_ID
  /\ ret # None
  /\ ret[1].ok
  /\ ret[1].source.label = SRC_ARXIV
  /\ Contains(ret[1].bibtex[1], <<"e", "p", "r", "i", "n", "t", "=", "{", "{", "2", "1", "1", "0", ".", "1", "4", "0", "5", "1", "}", "}">>)
  /\ ~Contains(ret[1].bibtex[1], <<"e", "p", "r", "i", "n", "t", "=", "{", "2", "1", "1", "0", ".", "1", "4", "0", "5", "1", "}">>)

\* the score of an accepted hit reaches the threshold of its tier, and a
\* Semantic Scholar search whose best hit is refused scored below it
AcceptedAtThreshold ==
  /\ pc \in {"tier4_arxiv", "tier4_doi"} => score >= Tier4Threshold(threshold)
  /\ pc = "tier5_doi" => score >= Tier5Threshold(threshold)
  /\ pc = "tier6_doi" => score >= Tier6Threshold(threshold)
  /\ (ret # None /\ ret[1].ok /\ ret[1].source.label = SRC_ARXIV_TITLE) =>
       ret[1].source.score[1] >= Tier3Threshold(threshold)
  /\ (pc = "tier5" /\ calls # <<>> /\ LastCall.op = "semanticscholar_search") =>
       score < Tier4Threshold(threshold)

\* C7 as stated: for every threshold t of 60..95, tier 3 uses t, tiers 4 and 5
\* a threshold not stricter than tier 3's, and tier 6 a threshold not stricter
\* than that of tiers 4 and 5.
C7_ProgressivelyLooser ==
  /\ Tier3Threshold(threshold) = threshold
  /\ Tier4Threshold(threshold) <= Tier3Threshold(threshold)
  /\ Tier5Threshold(threshold) <= Tier3Threshold(threshold)
  /\ Tier6Threshold(threshold) <= Tier4Threshold(threshold)
  /\ Tier6Threshold(threshold) <= Tier5Threshold(threshold)

\* C7 as amended: tier 3 uses t; tiers 4 and 5 use the same threshold, which is
\* not stricter than t when t >= 70 and is 70, stricter than t, when t < 70;
\* tier 6's threshold is never stricter than that of tiers 4 and 5; and every
\* tier accepts a hit exactly at its threshold.
C7_LooserFromSeventy ==
  /\ threshold \in ThresholdMin..ThresholdMax
  /\ \A t \in ThresholdMin..ThresholdMax :
       /\ Tier3Threshold(t) = t
       /\ Tier4Threshold(t) = Tier5Threshold(t)
       /\ t >= 70 => Tier4Threshold(t) <= Tier3Threshold(t)
       /\ t < 70 => Tier4Threshold(t) = 70
       /\ Tier6Threshold(t) <= Tier4Threshold(t)
       /\ Tier6Threshold(t) <= Tier5Threshold(t)
  /\ AcceptedAtThreshold

\* below 70, Semantic Scholar refused a hit whose score reaches the caller's
\* threshold
C7_RefusedAboveCallerThreshold ==
  /\ threshold < 70
  /\ pc = "tier5"
  /\ calls # <<>>
  /\ LastCall.op = "semanticscholar_search"
  /\ LastCall.found
  /\ score >= threshold
  /\ score < Tier4Threshold(threshold)

\* the year of the first of issued, created, published-print, published-online
\* that has a year
FirstYear(m) ==
  LET has == {k \in 1..4 : /\ m.dates[CROSSREF_DATE_KEYS[k]] # <<>>
                           /\ m.dates[CROSSREF_DATE_KEYS[k]][1] # <<>>
                           /\ m.dates[CROSSREF_DATE_KEYS[k]][1][1] # 0}
  IN IF has = {} THEN 0 ELSE m.dates[CROSSREF_DATE_KEYS[SetMin(has)]][1][1]

\* the year FirstYear gives is the year of both texts
SameYear(y, bibtex, ris) ==
  IF y = 0
  THEN ~Contains(bibtex, <<"y", "e", "a", "r", "=", "{", "{">>) /\ ~Contains(ris, <<"P", "Y", " ", " ", "-", " ">>)
  ELSE /\ Contains(bibtex, <<"y", "e", "a", "r", "=", "{", "{">> \o str_int(y) \o <<"}", "}">>)
       /\ Contains(ris, <<"P", "Y", " ", " ", "-", " ">> \o str_int(y))

\* C8: the BibTeX year and the RIS PY of a converted Crossref work are the year
\* of the first of issued, created, published-print, published-online that has
\* a year; a key with date-parts but no year is passed over.
C8_SameYearInBothFormats ==
  (ret # None /\ ret[1].ok /\ LastCall.op = "crossref_work") =>
    SameYear(FirstYear(cache[LastCall.key][1]), ret[1].bibtex[1], ret[1].ris[1])

\* issued holds no year and created holds 2020: the BibTeX has the year and
\* the RIS has no PY
C8_YearOnlyInBibtex ==
  /\ ret # None
  /\ ret[1].ok
  /\ Contains(ret[1].bibtex[1], <<"y", "e", "a", "r", "=", "{", "{", "2", "0", "2", "0", "}", "}">>)
  /\ ~Contains(ret[1].ris[1], <<"P", "Y", " ", " ", "-", " ">>)

\* tier 1 fetched a record for the DOI and bibtex_from_crossref raised on it
Tier1ConverterRaised ==
  /\ doi # None
  /\ calls # <<>>
  /\ calls[1].tier = 1
  /\ calls[1].found
  /\ bibtex_from_crossref(cache[calls[1].key][1]).exc # None

\* C9: when a converter raises in tier 1, no exception leaves resolve_one: it
\* returns a failure with no bibtex and no ris whose message is the exception's
\* text, and the call of tier 1 is the only adapter call of the entry.
C9_Tier1ExceptionCaught ==
  Tier1ConverterRaised =>
    /\ pc = "returned"
    /\ ~ret[1].ok
    /\ ret[1].bibtex = None
    /\ ret[1].ris = None
    /\ ret[1].message = bibtex_from_crossref(cache[calls[1].key][1]).exc
    /\ Len(calls) = 1

\* the converter raised in tier 1 on an input that also holds an arXiv id and
\* a title
C9_RaisedWithOtherSignals ==
  /\ Tier1ConverterRaised
  /\ arxiv_id # None
  /\ title # <<>>
  /\ ret # None
  /\ ret[1].message = Some(IndexErrorText)

\* the answers of the network that are failures
FailingAnswers ==
  {NetError, NetResponse(404, None), NetResponse(429, <<>>), NetResponse(500, <<>>)}

\* C10: an adapter whose call fails returns the empty value and raises nothing;
\* resolve_one goes on after a failed call, and when every call of a non-empty
\* input has failed it returns the failure with the fixed message, after trying
\* every tier the input has a signal for.
C10_AdapterFailuresContained ==
  /\ \A out \in FailingAnswers :
       /\ arxiv_by_id(out) = Value(None)
       /\ arxiv_search_title(out) = Value(<<>>)
       /\ crossref_work(out) = Value(None)
       /\ crossref_search(out) = Value(<<>>)
       /\ openalex_search(out) = Value(<<>>)
       /\ semanticscholar_search(out) = Value(<<>>)
  /\ \A i \in 1..Len(calls) : calls[i].failed => ~calls[i].found
  /\ (calls # <<>> /\ LastCall.failed) =>
       /\ pc # "raised"
       /\ ret # None => ret[1] = NoMatchResult(raw)
  /\ (ret # None /\ calls # <<>> /\ \A i \in 1..Len(calls) : calls[i].failed) =>
       /\ (doi # None) => \E i \in 1..Len(calls) : calls[i].tier = 1
       /\ (arxiv_id # None) => \E i \in 1..Len(calls) : calls[i].tier = 2
       /\ (title # <<>>) => \A k \in 3..6 : \E i \in 1..Len(calls) : calls[i].tier = k

\* every call of an entry with a DOI, an arXiv id and a title failed
C10_EveryCallFailed ==
  /\ ret # None
  /\ doi # None
  /\ arxiv_id # None
  /\ title # <<>>
  /\ Len(calls) = 7
  /\ \A i \in 1..Len(calls) : calls[i].failed
  /\ ret[1].message = Some(MSG_NO_MATCH)


\* C11: for an input that is empty or holds only whitespace, resolve_one
\* returns the failure with the empty-input message (ok false, no source label,
\* no bibtex, no ris), and the resolution calls no adapter: its log of calls is
\* empty and no signal was extracted.
C11_EmptyInputFails ==
  (pc \in {"returned", "raised"} /\ strip(raw) = <<>>) =>
    /\ ret = Some(EmptyInputResult(raw))
    /\ ret[1].ok = FALSE
    /\ ret[1].message = Some(MSG_EMPTY_INPUT)
    /\ ret[1].bibtex = None /\ ret[1].ris = None
    /\ calls = <<>>
    /\ doi = None /\ arxiv_id = None /\ title = <<>>

\* resolve_one has returned for an input of two spaces
C11_WhitespaceReturned ==
  /\ pc = "returned"
  /\ raw = <<" ", " ">>
  /\ ret # None
  /\ ret[1].message = Some(MSG_EMPTY_INPUT)
  /\ calls = <<>>


\* the longest candidate list the matchers are compared on
MaxCandidates == 3

\* the scores of the candidates of those lists
SampleScores == {0, 70, 85}

\* candidates of the three matchers: arXiv results, Semantic Scholar / OpenAlex
\* hits (with and without a title) and Crossref items (with, without and with
\* an empty title); two candidates of one score differ in another field
ArxivCandidates == {[result |-> r, score |-> s] : r \in {AX_FULL, AX_BARE}, s \in SampleScores}

TitledCandidates ==
  {[title |-> <<"x">>, score |-> s, DOI |-> d, ArXiv |-> <<>>] :
     s \in SampleScores, d \in {<<>>, DOI_1}}
    \cup {[title |-> <<>>, score |-> 0, DOI |-> DOI_1, ArXiv |-> <<>>]}

CrossrefCandidates ==
  {[title |-> <<<<"x">>>>, score |-> s, DOI |-> d] : s \in SampleScores, d \in {<<>>, DOI_1}}
    \cup {[title |-> t, score |-> 0, DOI |-> DOI_1] : t \in {<<>>, <<<<>>>>}}

\* the lists of at most MaxCandidates candidates of S
ListsOf(S) == UNION {[1..n -> S] : n \in 0..MaxCandidates}

\* the candidates a matcher scores: those with a title
WithTitle(hits) == SelectSeq(hits, LAMBDA it : it.title # <<>>)

WithCrossrefTitle(items) == SelectSeq(items, LAMBDA it : it.title # <<>> /\ it.title[1] # <<>>)

\* the highest score of the candidates (-1, the start value, without candidates)
MaxScore(hits) ==
  IF hits = <<>> THEN -1 ELSE SetMax({token_set_ratio(hits[i]) : i \in 1..Len(hits)})

\* the first candidate of the highest score
FirstOfMaxScore(hits) ==
  hits[SetMin({i \in 1..Len(hits) : token_set_ratio(hits[i]) = MaxScore(hits)})]

\* sel is what the claim says of the candidates and the threshold: the highest
\* score in any case; the first candidate of that score when the score reaches
\* the threshold, and no candidate otherwise
SelectedAsClaimed(hits, t, sel) ==
  /\ sel.score = MaxScore(hits)
  /\ sel.best = IF hits # <<>> /\ MaxScore(hits) >= t THEN Some(FirstOfMaxScore(hits))
                ELSE None

\* the three matchers on every sample list and every threshold of the runs
MatchersSelectAsClaimed ==
  \A t \in Thresholds :
    /\ \A hits \in ListsOf(ArxivCandidates) :
         SelectedAsClaimed(hits, t, best_arxiv_match(hits, t))
    /\ \A hits \in ListsOf(TitledCandidates) :
         SelectedAsClaimed(WithTitle(hits), t, best_title_match_from_candidates(hits, t))
    /\ \A items \in ListsOf(CrossrefCandidates) :
         SelectedAsClaimed(WithCrossrefTitle(items), t, best_crossref_match(items, t))

\* the selection resolve_one holds (best, score) after the search of a tier,
\* against the hits that search returned (the cached value of its key)
HeldAsClaimed(here, key, crossref, t) ==
  (title # <<>> /\ here) =>
    /\ key \in DOMAIN cache
    /\ SelectedAsClaimed(IF crossref THEN WithCrossrefTitle(cache[key])
                         ELSE WithTitle(cache[key]),
                         t, [best |-> best, score |-> score])

\* C12: each matcher scores every candidate (those with a title), keeps the
\* highest score, the first candidate seen winning a tie, and returns that
\* candidate only when the highest score is at or above the threshold; otherwise
\* it returns no candidate together with the highest score seen.  Checked of
\* the three matchers over the sample lists, and of the selection each of the
\* tiers 4 to 6 holds after its search, accepted or refused.
C12_SelectBest ==
  /\ MatchersSelectAsClaimed
  /\ HeldAsClaimed(pc \in {"tier4_arxiv", "tier4_doi"} \/ (pc = "tier5" /\ best = None),
                   Tier4Key, FALSE, Tier4Threshold(threshold))
  /\ HeldAsClaimed(pc = "tier5_doi" \/ (pc = "tier6" /\ best = None),
                   Tier5Key, FALSE, Tier5Threshold(threshold))
  /\ HeldAsClaimed(pc = "tier6_doi" \/ (pc = "fail" /\ best = None),
                   Tier6Key, TRUE, Tier6Threshold(threshold))

\* tier 6 refused the two Crossref items of score 68, the only candidates, and
\* kept that score
C12_RefusedWithScoreKept ==
  /\ pc = "fail"
  /\ best = None
  /\ score = CS_ITEM.score
  /\ Tier6Key \in DOMAIN cache
  /\ cache[Tier6Key] = <<CS_TWIN, CS_ITEM>>
  /\ Tier6Threshold(threshold) > score


\* the non-blank lines of the paste, stripped
NonBlankLines == StrippedNonEmpty(splitlines(strip(raw_text)))

\* the paste of two unnumbered lines that a carriage return separates
CR_PASTE == <<"a", "r", "X", "i", "v", ":", "2", "1", "1", "0", ".", "1", "4", "0", "5", "1", "\r", "a", "r", "x", "i", "v">>

\* the entries the running entry is flushed into: one, and one more for every
\* line with an enumeration marker after the first non-blank line
Flushes(lines) == 1 + Cardinality({i \in 2..Len(lines) : IsNumbered(lines[i])})

\* C13: the blank lines of the paste are skipped; the non-blank lines join a
\* running entry, which a line with an enumeration marker flushes unless it is
\* the first non-blank line; when one entry results and the paste has two or
\* more non-blank lines, the entries are those lines, one entry per line.  So k
\* numbered lines give k entries and n >= 2 unnumbered lines give the n lines.
C13_SplitEntries ==
  raw_text \in Pastes =>
    /\ NonBlankLines = <<>> => entries = <<>>
    /\ (NonBlankLines # <<>> /\ Flushes(NonBlankLines) > 1) =>
         Len(entries) = Flushes(NonBlankLines)
    /\ (Flushes(NonBlankLines) = 1 /\ Len(NonBlankLines) >= 2) =>
         entries = NonBlankLines
    /\ (\A i \in 1..Len(NonBlankLines) : IsNumbered(NonBlankLines[i])) =>
         Len(entries) = Len(NonBlankLines)
    /\ (Len(NonBlankLines) >= 2
        /\ \A i \in 1..Len(NonBlankLines) : ~IsNumbered(NonBlankLines[i])) =>
         Len(entries) = Len(NonBlankLines)

\* two unnumbered non-blank lines were split into one entry
C13_TwoLinesOneEntry ==
  /\ raw_text = CR_PASTE
  /\ Len(NonBlankLines) = 2
  /\ \A i \in 1..Len(NonBlankLines) : ~IsNumbered(NonBlankLines[i])
  /\ entries = <<<<"a", "r", "X", "i", "v", ":", "2", "1", "1", "0", ".", "1", "4", "0", "5", "1", " ", "a", "r", "x", "i", "v">>>>
  /\ pc = "returned"


\* the calls of tier 4 before the last call
Tier4CallsBefore == SelectSeq(SubSeq(calls, 1, Len(calls) - 1), LAMBDA c : c.tier = 4)

\* the result is a success of the given label that carries the score of the hit
LabelledWithScore(label) ==
  /\ pc = "returned"
  /\ ret # None
  /\ ret[1].ok
  /\ ret[1].source = [label |-> label, score |-> Some(score)]

\* C14: once tier 4 has accepted a Semantic Scholar paper, its arXiv id comes
\* before its DOI: arxiv_by_id is called first when the paper has an arXiv id,
\* and a record it returns gives the result labelled SemanticScholar->arXiv with
\* the score; crossref_work is called with the paper's DOI only when there is no
\* arXiv id or arxiv_by_id returned nothing, and a work it returns gives the
\* result labelled SemanticScholar->DOI/Crossref with the score; when neither
\* returns a record, resolve_one goes on to tier 5.
C14_ArxivIdPreferred ==
  /\ pc = "tier4_doi" =>
       \/ SemanticScholarArxiv(best[1]) = <<>>
       \/ /\ LastCall.tier = 4
          /\ LastCall.key = ArxivKey(SemanticScholarArxiv(best[1]))
          /\ ~LastCall.found
  /\ (calls # <<>> /\ LastCall.tier = 4 /\ LastCall.op = "arxiv_by_id") =>
       /\ LastCall.key = ArxivKey(SemanticScholarArxiv(best[1]))
       /\ Len(Tier4CallsBefore) = 1
       /\ Tier4CallsBefore[1].op = "semanticscholar_search"
       /\ IF LastCall.found THEN LabelledWithScore(SRC_SS_ARXIV)
          ELSE pc \in {"tier4_doi", "tier5"} /\ ret = None
  /\ (calls # <<>> /\ LastCall.tier = 4 /\ LastCall.op = "crossref_work") =>
       /\ LastCall.key = CrossrefKey(strip(best[1].DOI))
       /\ \/ /\ SemanticScholarArxiv(best[1]) = <<>>
             /\ Len(Tier4CallsBefore) = 1
          \/ /\ Len(Tier4CallsBefore) = 2
             /\ Tier4CallsBefore[2].op = "arxiv_by_id"
             /\ ~Tier4CallsBefore[2].found
       /\ IF LastCall.found THEN LabelledWithScore(SRC_SS_DOI)
          ELSE pc = "tier5" /\ ret = None

\* arxiv_by_id returned a record for the arXiv id of the accepted paper, and
\* resolve_one ended in an exception instead of a result
C14_RecordFetchedNoResult ==
  /\ pc = "raised"
  /\ calls # <<>>
  /\ LastCall.tier = 4
  /\ LastCall.op = "arxiv_by_id"
  /\ LastCall.found
  /\ best = Some(SS_BOTH)
  /\ ret = None


\* the adapters under st.cache_data
CachedAdapters ==
  {"arxiv_by_id", "arxiv_search_title", "crossref_work", "crossref_search",
   "openalex_search", "semanticscholar_search"}

\* what one step does to the cache: every cached value stays as it is, and a
\* call of a cached adapter reaches the network exactly when its key is not in
\* the cache; its value is in the cache afterwards, the empty value when the
\* network failed; a call answered by the cache returns the cached value
CacheStep ==
  /\ \A k \in DOMAIN cache : k \in DOMAIN cache' /\ cache'[k] = cache[k]
  /\ (calls' # calls /\ calls' # <<>> /\ calls'[Len(calls')].op \in CachedAdapters) =>
       LET e == calls'[Len(calls')]
       IN /\ e.net = (e.key \notin DOMAIN cache)
          /\ e.key \in DOMAIN cache'
          /\ e.found = Truthy(e.op, cache'[e.key])
          /\ e.failed => (e.net /\ cache'[e.key] = <<>>)
          /\ ~e.net => (~e.failed /\ cache'[e.key] = cache[e.key])

\* C15: a failed answer of a cached adapter is cached like a successful one:
\* after a call that returned the empty value because of a transport error or
\* a status other than 200, every later call of the same adapter with the same
\* arguments, in this resolution or in a later one, is answered by the cache
\* with the same empty value and does not reach the network.
C15_FailuresCached == [][CacheStep]_vars

\* in one resolution the same call was made twice: the first reached the
\* network and failed, the second was answered by the cache with the empty value
C15_FailedThenAnsweredByCache ==
  \E i, j \in 1..Len(calls) :
    /\ i < j
    /\ calls[i].key = calls[j].key
    /\ calls[i].op \in CachedAdapters
    /\ calls[i].net /\ calls[i].failed
    /\ ~calls[j].net /\ ~calls[j].found
    /\ cache[calls[j].key] = <<>>

=============================================================================
